---- MODULE Spec2Model ----
(***************************************************************************)
(* LiS:R Map Importer (src/src/LiSR_mapimporter.py).                       *)
(*                                                                         *)
(* Two specifications over one set of variables:                           *)
(*   BuildSpec  the entity record builders (StaticMesh, SkeletalMesh,      *)
(*              GameLight, GameSound) and the per-entity import functions  *)
(*              applied to one entity drawn from a bounded set;            *)
(*   Spec       the import orchestrator: BulkMapImporter, the modal        *)
(*              MapImporter operators, the file queue and the deferred     *)
(*              start_next callbacks.                                      *)
(*                                                                         *)
(* JSON mappings are functions over string keys; a key that is absent is   *)
(* absent from the DOMAIN.  Numbers are exact rationals <<num, den>>.      *)
(***************************************************************************)
EXTENDS Integers, Sequences, FiniteSets, TLC

VARIABLES
    wm,            \* the lisr_* properties of bpy.types.WindowManager
    ops,           \* the MapImporter operators that are running modal, oldest first
    app_timers,    \* json paths of the start_next callbacks registered and not yet run
    event_timers,  \* number of window event timers registered with the host
    fileselect,    \* the file browser of BulkMapImporter is open
    finished,      \* history: one entry per call of MapImporter.finish since the last Import click
    last,          \* history: the handler that ran last and what it did
    runs,          \* number of Import clicks so far
    probe          \* BuildSpec: the entity under construction

vars == <<wm, ops, app_timers, event_timers, fileselect, finished, last, runs, probe>>

orch_vars == <<wm, ops, app_timers, event_timers, fileselect, finished, last, runs>>

-----------------------------------------------------------------------------
(* Python values                                                           *)

\* Python's None: a value with the single key "none", which no JSON mapping has.
None == [none |-> TRUE]

IsNone(v) == "none" \in DOMAIN v

\* the empty mapping {}
EmptyDict == [k \in {} |-> 0]

\* dict.get(key, default)
Get(d, k, default) == IF k \in DOMAIN d THEN d[k] ELSE default

\* truth value of `d.get(k, None)` / `d.get(k, False)` for a mapping-valued key:
\* false when the key is absent and when it holds an empty mapping
TruthyKey(d, k) == k \in DOMAIN d /\ DOMAIN d[k] # {}

\* `value` bound to a name once, then used in F: a local variable
With(value, F(_)) == CHOOSE r \in { F(v) : v \in {value} } : TRUE

\* exact rational arithmetic on <<numerator, denominator>>
Rat(n) == <<n, 1>>

RatDiv(a, k) == <<a[1], a[2] * k>>

RatMul(a, b) == <<a[1] * b[1], a[2] * b[2]>>

RatEq(a, b) == a[1] * b[2] = b[1] * a[2]

Vec3Eq(u, v) == \A i \in 1..3 : RatEq(u[i], v[i])

-----------------------------------------------------------------------------
(* The asset tree                                                          *)

\* object paths whose text contains 'BasicShapes'
BasicShapePaths == {"/Engine/BasicShapes/Cube"}

\* object paths P for which base_dir + P + ".gltf" exists on disk
GltfOnDisk == {"/Game/Chair", "/Game/Hero"}

\* An ObjectPath string is the sequence of its '.'-separated parts; the empty
\* string is the empty sequence.

\* split_object_path keeps the text before the first '.'; a string without a
\* '.' is its own single part.
split_object_path(object_path) == object_path[1]

ContainsBasicShapes(object_path) ==
    \E i \in 1..Len(object_path) : object_path[i] \in BasicShapePaths

-----------------------------------------------------------------------------
(* Entity record builders                                                  *)

\* the components a sub-mapping must hold for the unguarded .get(k) / 100
\* arithmetic not to raise TypeError
HasAll(m, keys) == \A k \in keys : k \in DOMAIN m

LocationRaises(props) ==
    TruthyKey(props, "RelativeLocation")
    /\ ~HasAll(props["RelativeLocation"], {"X", "Y", "Z"})

RotationRaises(props) ==
    TruthyKey(props, "RelativeRotation")
    /\ ~HasAll(props["RelativeRotation"], {"Roll", "Pitch", "Yaw"})

ScaledPos_unflipped(pos, scale_factor) ==
    << RatMul(RatDiv(Rat(pos["X"]), 100), scale_factor),
       RatMul(RatDiv(Rat(pos["Y"]), 100), scale_factor),
       RatMul(RatDiv(Rat(pos["Z"]), 100), scale_factor) >>

\* [X/100*s, Y/-100*s, Z/100*s]
ScaledPos(pos, scale_factor) ==
    << RatMul(RatDiv(Rat(pos["X"]), 100), scale_factor),
       RatMul(RatDiv(Rat(pos["Y"]), -100), scale_factor),
       RatMul(RatDiv(Rat(pos["Z"]), 100), scale_factor) >>

\* [Roll, Pitch*-1, Yaw*-1]
ConvertRot(rot) ==
    << Rat(rot["Roll"]), Rat(rot["Pitch"] * (-1)), Rat(rot["Yaw"] * (-1)) >>

\* [X*s, Y*s, Z*s], a missing axis taken as 1
ScaledScale(scale, scale_factor) ==
    << RatMul(Rat(Get(scale, "X", 1)), scale_factor),
       RatMul(Rat(Get(scale, "Y", 1)), scale_factor),
       RatMul(Rat(Get(scale, "Z", 1)), scale_factor) >>

ZeroVec == <<Rat(0), Rat(0), Rat(0)>>

OneVec == <<Rat(1), Rat(1), Rat(1)>>

\* the fields a mesh record holds when __init__ starts
MeshDefaults(json_entity) ==
    [ entity_name |-> Get(json_entity, "Outer", "Error"),
      import_path |-> "",
      pos         |-> ZeroVec,
      rot         |-> ZeroVec,
      scale       |-> OneVec,
      invalid     |-> FALSE,
      skip_reason |-> "",
      raised      |-> FALSE ]

Invalid(rec, reason) == [rec EXCEPT !.invalid = TRUE, !.skip_reason = reason]

\* the transform part of StaticMesh.__init__ / SkeletalMesh.__init__, reached
\* only by a record that passed every validity check
MeshTransform(rec, props, scale_factor) ==
    IF LocationRaises(props) THEN [rec EXCEPT !.raised = TRUE]
    ELSE LET r1 == IF TruthyKey(props, "RelativeLocation")
                   THEN [rec EXCEPT !.pos = ScaledPos(props["RelativeLocation"], scale_factor)]
                   ELSE rec
         IN IF RotationRaises(props) THEN [r1 EXCEPT !.raised = TRUE]
            ELSE LET r2 == IF TruthyKey(props, "RelativeRotation")
                           THEN [r1 EXCEPT !.rot = ConvertRot(props["RelativeRotation"])]
                           ELSE r1
                 IN IF TruthyKey(props, "RelativeScale3D")
                    THEN [r2 EXCEPT !.scale = ScaledScale(props["RelativeScale3D"], scale_factor)]
                    ELSE [r2 EXCEPT !.scale = <<scale_factor, scale_factor, scale_factor>>]

\* `if not os.path.exists(self.import_path)` and what follows it
CheckFile_late(rec, props, scale_factor) ==
    IF rec.import_path \notin GltfOnDisk
    THEN Invalid(MeshTransform(rec, props, scale_factor), "file not found")
    ELSE MeshTransform(rec, props, scale_factor)

CheckFile(rec, props, scale_factor) ==
    IF rec.import_path \notin GltfOnDisk
    THEN Invalid(rec, "file not found")
    ELSE MeshTransform(rec, props, scale_factor)

\* the validity checks shared by the two mesh builders; mesh_key is "StaticMesh"
\* or "SkeletalMesh", basic_shapes tells whether the BasicShapes test is made
MeshRecord(json_entity, scale_factor, mesh_key, no_mesh_reason, basic_shapes) ==
    LET rec   == MeshDefaults(json_entity)
        props == Get(json_entity, "Properties", None)
    IN IF IsNone(props) \/ DOMAIN props = {} THEN Invalid(rec, "no properties")
       ELSE IF ~TruthyKey(props, mesh_key) THEN Invalid(rec, no_mesh_reason)
       ELSE LET object_path == Get(props[mesh_key], "ObjectPath", <<>>)
            IN IF Len(object_path) = 0 THEN Invalid(rec, "no object path")
               ELSE IF basic_shapes /\ ContainsBasicShapes(object_path)
                    THEN Invalid(rec, "basic shape")
               ELSE CheckFile([rec EXCEPT !.import_path = split_object_path(object_path)],
                              props, scale_factor)

StaticMesh(json_entity, scale_factor) ==
    MeshRecord(json_entity, scale_factor, "StaticMesh", "no static mesh", TRUE)

SkeletalMesh(json_entity, scale_factor) ==
    MeshRecord(json_entity, scale_factor, "SkeletalMesh", "no skeletal mesh", FALSE)

\* GameLight.__init__: no scale factor, no skip_reason attribute
GameLight(json_entity) ==
    LET rec == [ entity_name |-> Get(json_entity, "Outer", "Error"),
                 type        |-> Get(json_entity, "Type", "SpotLightComponent"),
                 pos         |-> ZeroVec,
                 rot         |-> ZeroVec,
                 scale       |-> OneVec,
                 invalid     |-> FALSE,
                 raised      |-> FALSE ]
        props == Get(json_entity, "Properties", None)
    IN IF IsNone(props) \/ DOMAIN props = {} THEN [rec EXCEPT !.invalid = TRUE]
       ELSE IF LocationRaises(props) THEN [rec EXCEPT !.raised = TRUE]
       ELSE LET r1 == IF TruthyKey(props, "RelativeLocation")
                      THEN [rec EXCEPT !.pos = ScaledPos(props["RelativeLocation"], Rat(1))]
                      ELSE rec
            IN IF RotationRaises(props) THEN [r1 EXCEPT !.raised = TRUE]
               ELSE LET r2 == IF TruthyKey(props, "RelativeRotation")
                              THEN [r1 EXCEPT !.rot = ConvertRot(props["RelativeRotation"])]
                              ELSE r1
                    IN IF TruthyKey(props, "RelativeScale3D")
                       THEN [r2 EXCEPT !.scale = ScaledScale(props["RelativeScale3D"], Rat(1))]
                       ELSE r2

\* as build_component_lookup, but an earlier entity is kept over a later one
RECURSIVE build_component_lookup_first(_)
build_component_lookup_first(json_entities) ==
    IF Len(json_entities) = 0 THEN EmptyDict
    ELSE LET entity == Head(json_entities)
             after  == build_component_lookup_first(Tail(json_entities))
         IN IF Get(entity, "Type", "") = "SceneComponent" /\ Get(entity, "Outer", "") # ""
            THEN (entity["Outer"] :> entity) @@ after
            ELSE after

\* Outer -> entity, for the entities of Type SceneComponent with a non-empty
\* Outer; a later entity overwrites an earlier one
RECURSIVE build_component_lookup(_)
build_component_lookup(json_entities) ==
    IF Len(json_entities) = 0 THEN EmptyDict
    ELSE LET n      == Len(json_entities)
             entity == json_entities[n]
             before == build_component_lookup(SubSeq(json_entities, 1, n - 1))
         IN IF Get(entity, "Type", "") = "SceneComponent" /\ Get(entity, "Outer", "") # ""
            THEN (entity["Outer"] :> entity) @@ before
            ELSE before

\* GameSound.__init__: the record is never marked invalid
GameSound(json_entity, component_lookup, scale_factor) ==
    LET rec == [ entity_name |-> Get(json_entity, "Name", "Error"),
                 pos         |-> ZeroVec,
                 rot         |-> ZeroVec,
                 invalid     |-> FALSE,
                 raised      |-> FALSE ]
    IN IF rec.entity_name \in DOMAIN component_lookup
       THEN LET comp       == component_lookup[rec.entity_name]
                comp_props == Get(comp, "Properties", EmptyDict)
                loc        == Get(comp_props, "RelativeLocation", EmptyDict)
            IN [rec EXCEPT !.pos =
                   << RatMul(RatDiv(Rat(Get(loc, "X", 0)), 100), scale_factor),
                      RatMul(RatDiv(Rat(Get(loc, "Y", 0)), -100), scale_factor),
                      RatMul(RatDiv(Rat(Get(loc, "Z", 0)), 100), scale_factor) >>]
       ELSE rec

-----------------------------------------------------------------------------
(* Per-entity import functions.  Each returns what the Python function     *)
(* returns ("obj", "None", or "raise" when an exception leaves it), the    *)
(* host calls it made in order, the mesh cache afterwards and the          *)
(* transform it assigned to the placed object.                             *)

\* outcomes of bpy.ops.import_scene.gltf: an object becomes active, no object
\* becomes active, or the operator raises (also when it is not registered)
GltfOutcomes == {"ok", "none", "raise"}

\* what the host importer does with each file there is, during one handler
HostBehaviours == [GltfOnDisk -> GltfOutcomes]

Call(op, arg) == [op |-> op, arg |-> arg]

Result(ret, calls, cache, pos, rot, scale) ==
    [ ret |-> ret, calls |-> calls, _mesh_cache |-> cache,
      location |-> pos, rotation |-> rot, scale |-> scale ]

NotPlaced(ret, calls, cache) == Result(ret, calls, cache, ZeroVec, ZeroVec, OneVec)

\* as PlaceMesh, but a fresh import is not stored in the cache
PlaceMesh_uncached(rec, _mesh_cache, host) ==
    IF rec.raised THEN NotPlaced("raise", <<>>, _mesh_cache)
    ELSE IF rec.invalid THEN NotPlaced("None", <<>>, _mesh_cache)
    ELSE LET path == rec.import_path
             apply == << Call("transform", rec.entity_name), Call("link", rec.entity_name) >>
         IN IF path \in _mesh_cache
            THEN Result("obj", <<Call("objects.new", rec.entity_name)>> \o apply,
                        _mesh_cache, rec.pos, rec.rot, rec.scale)
            ELSE IF host[path] = "raise"
                 THEN NotPlaced("raise", <<Call("import_scene.gltf", path)>>, _mesh_cache)
            ELSE IF host[path] = "none"
                 THEN NotPlaced("None", <<Call("import_scene.gltf", path)>>, _mesh_cache)
            ELSE Result("obj", <<Call("import_scene.gltf", path)>> \o apply,
                        _mesh_cache, rec.pos, rec.rot, rec.scale)

\* the body shared by _import_mesh_entity and _import_skeletal_entity once the
\* record is built
PlaceMesh(rec, _mesh_cache, host) ==
    IF rec.raised THEN NotPlaced("raise", <<>>, _mesh_cache)
    ELSE IF rec.invalid THEN NotPlaced("None", <<>>, _mesh_cache)
    ELSE LET path == rec.import_path
             apply == << Call("transform", rec.entity_name), Call("link", rec.entity_name) >>
         IN IF path \in _mesh_cache
            THEN Result("obj", <<Call("objects.new", rec.entity_name)>> \o apply,
                        _mesh_cache, rec.pos, rec.rot, rec.scale)
            ELSE IF host[path] = "raise"
                 THEN NotPlaced("raise", <<Call("import_scene.gltf", path)>>, _mesh_cache)
            ELSE IF host[path] = "none"
                 THEN NotPlaced("None", <<Call("import_scene.gltf", path)>>, _mesh_cache)
            ELSE Result("obj", <<Call("import_scene.gltf", path)>> \o apply,
                        _mesh_cache \cup {path}, rec.pos, rec.rot, rec.scale)

_import_mesh_entity(entity, scale_factor, _mesh_cache, host) ==
    PlaceMesh(StaticMesh(entity, scale_factor), _mesh_cache, host)

_import_skeletal_entity(entity, scale_factor, _mesh_cache, host) ==
    PlaceMesh(SkeletalMesh(entity, scale_factor), _mesh_cache, host)

\* light = GameLight(entity); light.import_light(self._collection)
import_light(entity, _mesh_cache) ==
    LET light == GameLight(entity)
    IN IF light.raised THEN NotPlaced("raise", <<>>, _mesh_cache)
       ELSE IF light.invalid THEN NotPlaced("None", <<>>, _mesh_cache)
       ELSE Result("obj",
                   << Call("lights.new", light.entity_name),
                      Call("objects.new", light.entity_name),
                      Call("transform", light.entity_name),
                      Call("link", light.entity_name) >>,
                   _mesh_cache, light.pos, light.rot, light.scale)

_import_sound_entity(entity, component_lookup, scale_factor, _mesh_cache) ==
    LET sound == GameSound(entity, component_lookup, scale_factor)
    IN IF sound.invalid THEN NotPlaced("None", <<>>, _mesh_cache)
       ELSE Result("obj",
                   << Call("speakers.new", sound.entity_name),
                      Call("objects.new", sound.entity_name),
                      Call("transform", sound.entity_name),
                      Call("link", sound.entity_name) >>,
                   _mesh_cache, sound.pos, ZeroVec, OneVec)

\* MapImporter._static_mesh_types, _skeletal_mesh_types, _light_types, _sound_types
_static_mesh_types == {"StaticMeshComponent", "InstancedStaticMeshComponent"}

_skeletal_mesh_types == {"SkeletalMeshComponent"}

_light_types == {"SpotLightComponent", "AnimatedLightComponent", "PointLightComponent"}

_sound_types == {"SD3DSound"}

-----------------------------------------------------------------------------
(* BuildSpec: one entity, drawn from the shapes below, is handed to the    *)
(* import function its Type selects.                                       *)

\* value of the "StaticMesh" / "SkeletalMesh" key; 0 stands for an absent key
MeshRefShapes == 0..6

MeshRef(m) ==
    CASE m = 1 -> [ObjectName |-> "Chair"]
      [] m = 2 -> [ObjectPath |-> <<>>]
      [] m = 3 -> [ObjectPath |-> <<"/Engine/BasicShapes/Cube", "Cube">>]
      [] m = 4 -> [ObjectPath |-> <<"/Game/Chair", "0">>]
      [] m = 5 -> [ObjectPath |-> <<"/Game/Hero">>]
      [] m = 6 -> [ObjectPath |-> <<"/Game/Lost", "0">>]

\* value of "RelativeLocation"; 0 stands for an absent key
LocationShapes == 0..4

Location(l) ==
    CASE l = 1 -> EmptyDict
      [] l = 2 -> [X |-> 100, Y |-> 100, Z |-> 100]
      [] l = 3 -> [X |-> 250, Y |-> -50, Z |-> 0]
      [] l = 4 -> [X |-> 100, Z |-> 100]

\* value of "RelativeRotation"; 0 stands for an absent key
RotationShapes == 0..2

Rotation(r) ==
    CASE r = 1 -> [Roll |-> 10, Pitch |-> 20, Yaw |-> 30]
      [] r = 2 -> [Roll |-> 10, Pitch |-> 20]

\* value of "RelativeScale3D"; 0 stands for an absent key
Scale3DShapes == 0..2

Scale3D(s) ==
    CASE s = 1 -> [X |-> 2, Y |-> 3, Z |-> 4]
      [] s = 2 -> [X |-> 2]

\* lisr_scale_factor: 1, 2 and 1/2
ScaleFactors == {<<1, 1>>, <<2, 1>>, <<1, 2>>}

Key(present, k, v) == IF present THEN k :> v ELSE EmptyDict

MeshKey(type) == IF type \in _skeletal_mesh_types THEN "SkeletalMesh" ELSE "StaticMesh"

\* p = 0: no Properties key; p = 1: Properties built from the four shapes
\* (all four absent gives the empty mapping)
Entity(type, name, p, m, l, r, s) ==
    LET props == Key(m # 0, MeshKey(type), MeshRef(m))
                 @@ Key(l # 0, "RelativeLocation", Location(l))
                 @@ Key(r # 0, "RelativeRotation", Rotation(r))
                 @@ Key(s # 0, "RelativeScale3D", Scale3D(s))
    IN [Type |-> type, Outer |-> "Actor_0", Name |-> name]
       @@ Key(p # 0, "Properties", props)

SceneComponent(outer, p, l) ==
    [Type |-> "SceneComponent", Outer |-> outer, Name |-> "SceneComponent_0"]
    @@ Key(p # 0, "Properties", Key(l # 0, "RelativeLocation", Location(l)))

\* the other entities of the file a sound entity is read from
CompanionShapes == 0..5

Companions(j) ==
    CASE j = 0 -> <<>>
      [] j = 1 -> <<SceneComponent("SD3DSound_0", 1, 2)>>
      [] j = 2 -> <<SceneComponent("SD3DSound_0", 0, 0)>>
      [] j = 3 -> <<SceneComponent("SD3DSound_0", 1, 2), SceneComponent("SD3DSound_0", 1, 3)>>
      [] j = 4 -> <<SceneComponent("SD3DSound_0", 1, 4)>>
      [] j = 5 -> <<SceneComponent("SD3DSound_1", 1, 2)>>

ProbeTypes == {"StaticMeshComponent", "SkeletalMeshComponent", "PointLightComponent", "SD3DSound"}

IsMeshType(type) == type \in _static_mesh_types \cup _skeletal_mesh_types

ProbeInput(type, p, m, l, r, s, j, sf, cached) ==
    [ stage  |-> "input",
      entity |-> Entity(type, IF type \in _sound_types THEN "SD3DSound_0" ELSE "Comp_0",
                        p, m, l, r, s),
      json   |-> Companions(j),
      scale_factor |-> sf,
      _mesh_cache  |-> IF cached THEN {"/Game/Chair"} ELSE {},
      rec    |-> None,
      res    |-> NotPlaced("pending", <<>>, {}) ]

ProbeIdle == ProbeInput("StaticMeshComponent", 0, 0, 0, 0, 0, 0, <<1, 1>>, FALSE)

ProbeInit ==
    \E type \in ProbeTypes, p \in 0..1, m \in MeshRefShapes, l \in LocationShapes,
       r \in RotationShapes, s \in Scale3DShapes, j \in CompanionShapes,
       sf \in ScaleFactors, cached \in BOOLEAN :
        /\ p = 0 => (m = 0 /\ l = 0 /\ r = 0 /\ s = 0)
        /\ ~IsMeshType(type) => (m = 0 /\ ~cached)
        /\ type \notin _sound_types => j = 0
        /\ probe = ProbeInput(type, p, m, l, r, s, j, sf, cached)

ProbeDone(rec, res) ==
    probe' = [probe EXCEPT !.stage = "done", !.rec = rec, !.res = res]

ProbeStatic ==
    /\ probe.stage = "input"
    /\ probe.entity["Type"] \in _static_mesh_types
    /\ \E host \in HostBehaviours :
         ProbeDone(StaticMesh(probe.entity, probe.scale_factor),
                   _import_mesh_entity(probe.entity, probe.scale_factor,
                                       probe._mesh_cache, host))
    /\ UNCHANGED orch_vars

ProbeSkeletal ==
    /\ probe.stage = "input"
    /\ probe.entity["Type"] \in _skeletal_mesh_types
    /\ \E host \in HostBehaviours :
         ProbeDone(SkeletalMesh(probe.entity, probe.scale_factor),
                   _import_skeletal_entity(probe.entity, probe.scale_factor,
                                           probe._mesh_cache, host))
    /\ UNCHANGED orch_vars

ProbeLight ==
    /\ probe.stage = "input"
    /\ probe.entity["Type"] \in _light_types
    /\ ProbeDone(GameLight(probe.entity), import_light(probe.entity, probe._mesh_cache))
    /\ UNCHANGED orch_vars

ProbeSound ==
    /\ probe.stage = "input"
    /\ probe.entity["Type"] \in _sound_types
    /\ LET component_lookup == build_component_lookup(probe.json)
       IN ProbeDone(GameSound(probe.entity, component_lookup, probe.scale_factor),
                    _import_sound_entity(probe.entity, component_lookup,
                                         probe.scale_factor, probe._mesh_cache))
    /\ UNCHANGED orch_vars

BuildNext == ProbeStatic \/ ProbeSkeletal \/ ProbeLight \/ ProbeSound

-----------------------------------------------------------------------------
(* The import orchestrator                                                 *)

\* most files one Import click may queue
MaxQueue == 2

\* most Import clicks in one behaviour
MaxRuns == 2

_batch_size == 5

\* the JSON files the user can select
JsonFiles == {"a.json", "c.json", "bad.json"}

\* json.load succeeds
Parses(path) == path # "bad.json"

\* a.json: ten entities, seven of them importable (six with lights off): two
\* meshes sharing a file, a mesh without Properties, a light, an entity without
\* Type, an entity of a type that is not imported, a sound and its companion
\* component, a skeletal mesh, and a mesh whose file is missing
MapA ==
    << Entity("StaticMeshComponent", "Comp_0", 1, 4, 2, 1, 1),
       Entity("InstancedStaticMeshComponent", "Comp_1", 1, 4, 3, 0, 0),
       Entity("StaticMeshComponent", "Comp_2", 0, 0, 0, 0, 0),
       Entity("PointLightComponent", "Light_0", 1, 0, 2, 1, 0),
       [Outer |-> "Actor_0", Name |-> "Untyped_0"],
       Entity("BrushComponent", "Brush_0", 1, 0, 2, 0, 0),
       Entity("SD3DSound", "SD3DSound_0", 1, 0, 0, 0, 0),
       SceneComponent("SD3DSound_0", 1, 2),
       Entity("SkeletalMeshComponent", "Comp_3", 1, 5, 2, 1, 0),
       Entity("StaticMeshComponent", "Comp_4", 1, 6, 2, 0, 0) >>

\* c.json: a single light (nothing importable with lights off)
MapC == << Entity("PointLightComponent", "Light_0", 1, 0, 3, 1, 0) >>

\* the entity list json.load returns
JsonContent(path) ==
    CASE path = "a.json" -> MapA
      [] path = "c.json" -> MapC

\* the queues the file browser can hand to BulkMapImporter.execute: up to
\* MaxQueue distinct files, in any order
Selections ==
    { q \in UNION { [1..n -> JsonFiles] : n \in 1..MaxQueue } :
        \A i, j \in 1..Len(q) : i # j => q[i] # q[j] }

\* BulkMapImporter.execute, "Build list of full file paths"
RECURSIVE ExistingPaths(_, _)
ExistingPaths(files, on_disk) ==
    IF Len(files) = 0 THEN <<>>
    ELSE LET rest == ExistingPaths(Tail(files), on_disk)
         IN IF Head(files) \in on_disk THEN <<Head(files)>> \o rest ELSE rest

\* MapImporter.invoke, "Filter to only importable entities"
RECURSIVE Classify(_, _)
Classify(json_object, w) ==
    IF Len(json_object) = 0 THEN <<>>
    ELSE LET entity == Head(json_object)
             rest   == Classify(Tail(json_object), w)
             entity_type == Get(entity, "Type", "")
         IN IF entity_type = "" THEN rest
            ELSE IF w.lisr_import_meshes /\ entity_type \in _static_mesh_types
                 THEN <<<<"mesh", entity>>>> \o rest
            ELSE IF w.lisr_import_meshes /\ entity_type \in _skeletal_mesh_types
                 THEN <<<<"skeletal", entity>>>> \o rest
            ELSE IF w.lisr_import_lights /\ entity_type \in _light_types
                 THEN <<<<"light", entity>>>> \o rest
            ELSE IF w.lisr_import_sounds /\ entity_type \in _sound_types
                 THEN <<<<"sound", entity>>>> \o rest
            ELSE rest

\* what a handler leaves in `last`
Did(handler, path, result) ==
    [ handler |-> handler, path |-> path, result |-> result,
      from |-> 0, to |-> 0, total |-> 0, batch |-> <<>>, host_raised |-> FALSE,
      timers |-> event_timers ]

WmInit(lights) ==
    [ lisr_import_progress  |-> <<0, 1>>,
      lisr_import_running   |-> FALSE,
      lisr_import_queue     |-> <<>>,
      lisr_queue_index      |-> 0,
      lisr_queue_total      |-> 0,
      lisr_import_meshes    |-> TRUE,
      lisr_import_lights    |-> lights,
      lisr_import_sounds    |-> TRUE,
      lisr_scale_factor     |-> <<1, 1>>,
      lisr_current_file     |-> "",
      lisr_entity_current   |-> 0,
      lisr_entity_total     |-> 0,
      lisr_import_complete  |-> FALSE,
      lisr_total_objects    |-> 0,
      lisr_total_maps       |-> 0,
      lisr_completed_files  |-> <<>> ]

OrchIdle ==
    /\ wm = WmInit(TRUE)
    /\ ops = <<>>
    /\ app_timers = <<>>
    /\ event_timers = 0
    /\ fileselect = FALSE
    /\ finished = <<>>
    /\ last = Did("register", "", "")
    /\ runs = 0

Init ==
    /\ \E lights \in BOOLEAN : wm = WmInit(lights)
    /\ ops = <<>>
    /\ app_timers = <<>>
    /\ event_timers = 0
    /\ fileselect = FALSE
    /\ finished = <<>>
    /\ last = Did("register", "", "")
    /\ runs = 0
    /\ probe = ProbeIdle

BuildInit == OrchIdle /\ ProbeInit

\* MapImporter._process_next_in_queue: the window-manager properties afterwards
ProcessNextWm(w) ==
    IF w.lisr_queue_total > 0
    THEN IF w.lisr_queue_index + 1 < w.lisr_queue_total
         THEN [w EXCEPT !.lisr_queue_index = w.lisr_queue_index + 1]
         ELSE [w EXCEPT !.lisr_import_running = FALSE,
                        !.lisr_import_progress = <<100, 1>>,
                        !.lisr_import_complete = TRUE,
                        !.lisr_current_file = "",
                        !.lisr_queue_total = 0,
                        !.lisr_queue_index = 0,
                        !.lisr_import_queue = <<>>]
    ELSE [w EXCEPT !.lisr_import_running = FALSE,
                   !.lisr_import_progress = <<100, 1>>,
                   !.lisr_import_complete = TRUE]

\* MapImporter._process_next_in_queue: the start_next callbacks it registers
ProcessNextTimers(w) ==
    IF w.lisr_queue_total > 0 /\ w.lisr_queue_index + 1 < w.lisr_queue_total
    THEN <<w.lisr_import_queue[w.lisr_queue_index + 2]>>
    ELSE <<>>

\* the operator MapImporter.invoke leaves running modal
NewOperator(path, w, entities) ==
    [ json_path         |-> path,
      _entities         |-> entities,
      _index            |-> 0,
      _total            |-> Len(entities),
      _mesh_cache       |-> {},
      _objects_imported |-> 0,
      _scale_factor     |-> w.lisr_scale_factor,
      _component_lookup |-> IF w.lisr_import_sounds
                            THEN build_component_lookup(JsonContent(path))
                            ELSE EmptyDict,
      processed         |-> <<>> ]

\* MapImporter.invoke for json_path = path, entered with the window-manager
\* properties w, the operators running and the callbacks registered; exists is
\* what os.path.exists(map_json_path) answers
MapImporterInvoke(path, exists, w, running, timers) ==
    IF ~exists
    THEN /\ wm' = w
         /\ ops' = running
         /\ app_timers' = timers
         /\ event_timers' = event_timers
         /\ last' = Did("MapImporter.invoke", path, "CANCELLED: JSON file not found")
    ELSE IF ~Parses(path)
    THEN /\ wm' = w
         /\ ops' = running
         /\ app_timers' = timers
         /\ event_timers' = event_timers
         /\ last' = Did("MapImporter.invoke", path, "raise: json.load")
    ELSE LET entities == Classify(JsonContent(path), w)
             w1 == [w EXCEPT !.lisr_current_file = path,
                             !.lisr_entity_current = 0,
                             !.lisr_entity_total = Len(entities)]
         IN IF Len(entities) = 0
            THEN /\ wm' = ProcessNextWm(w1)
                 /\ ops' = running
                 /\ app_timers' = timers \o ProcessNextTimers(w1)
                 /\ event_timers' = event_timers
                 /\ last' = Did("MapImporter.invoke", path, "CANCELLED: no importable entities")
            ELSE /\ wm' = [w1 EXCEPT !.lisr_import_running = TRUE,
                                     !.lisr_import_progress = <<0, 1>>]
                 /\ ops' = Append(running, NewOperator(path, w, entities))
                 /\ app_timers' = timers
                 /\ event_timers' = event_timers + 1
                 /\ last' = Did("MapImporter.invoke", path, "RUNNING_MODAL")

\* the Import button: enabled while no import is running; BulkMapImporter.invoke
BulkInvoke ==
    /\ ~wm.lisr_import_running
    /\ ~fileselect
    /\ runs < MaxRuns
    /\ wm' = [wm EXCEPT !.lisr_import_complete = FALSE,
                        !.lisr_total_objects = 0,
                        !.lisr_total_maps = 0,
                        !.lisr_current_file = "",
                        !.lisr_entity_current = 0,
                        !.lisr_entity_total = 0,
                        !.lisr_completed_files = <<>>]
    /\ fileselect' = TRUE
    /\ runs' = runs + 1
    /\ finished' = <<>>
    /\ last' = Did("BulkMapImporter.invoke", "", "RUNNING_MODAL")
    /\ UNCHANGED <<ops, app_timers, event_timers, probe>>

\* the file browser is confirmed: BulkMapImporter.execute, which starts the
\* first file's MapImporter.invoke itself; on_disk are the selected files that
\* os.path.exists finds
BulkExecute ==
    /\ fileselect
    /\ fileselect' = FALSE
    /\ \E files \in Selections, on_disk \in SUBSET JsonFiles :
         LET file_paths == ExistingPaths(files, on_disk)
         IN IF Len(file_paths) = 0
            THEN /\ last' = Did("BulkMapImporter.execute", "", "CANCELLED")
                 /\ UNCHANGED <<wm, ops, app_timers, event_timers>>
            ELSE MapImporterInvoke(file_paths[1], TRUE,
                                   [wm EXCEPT !.lisr_import_queue = file_paths,
                                              !.lisr_queue_index = 0,
                                              !.lisr_queue_total = Len(file_paths),
                                              !.lisr_total_maps = Len(file_paths)],
                                   ops, app_timers)
    /\ UNCHANGED <<finished, runs, probe>>

\* a registered start_next callback runs; it is not repeated.  The file was on
\* disk when it was queued and may have been removed since.
StartNext ==
    /\ Len(app_timers) > 0
    /\ \E exists \in BOOLEAN :
         MapImporterInvoke(Head(app_timers), exists, wm, ops, Tail(app_timers))
    /\ UNCHANGED <<fileselect, finished, runs, probe>>

Min(a, b) == IF a < b THEN a ELSE b

RemoveAt(seq, i) == SubSeq(seq, 1, i - 1) \o SubSeq(seq, i + 1, Len(seq))

\* the branch of MapImporter.modal's loop body for one classified entity
ImportEntity(entity_type, entity, op, _mesh_cache, host) ==
    CASE entity_type = "mesh" ->
           _import_mesh_entity(entity, op._scale_factor, _mesh_cache, host)
      [] entity_type = "skeletal" ->
           _import_skeletal_entity(entity, op._scale_factor, _mesh_cache, host)
      [] entity_type = "light" ->
           import_light(entity, _mesh_cache)
      [] entity_type = "sound" ->
           _import_sound_entity(entity, op._component_lookup, op._scale_factor, _mesh_cache)

BatchStart(op) ==
    [ _mesh_cache |-> op._mesh_cache, _objects_imported |-> op._objects_imported,
      batch |-> <<>>, raised |-> FALSE, host_raised |-> FALSE ]

\* one pass of the loop body of MapImporter.modal for position i (from 0)
BatchStep(op, host, i, acc) ==
    LET res == ImportEntity(op._entities[i + 1][1], op._entities[i + 1][2],
                            op, acc._mesh_cache, host)
    IN [ _mesh_cache |-> res._mesh_cache,
         _objects_imported |-> acc._objects_imported + (IF res.ret = "obj" THEN 1 ELSE 0),
         batch |-> Append(acc.batch, i),
         raised |-> res.ret = "raise",
         host_raised |-> res.ret = "raise" /\ Len(res.calls) > 0 ]

\* MapImporter.modal, `for i in range(self._index, end_index)`: positions are
\* counted from 0 as in the code; an exception ends the loop
RECURSIVE RunBatch(_, _, _, _, _)
RunBatch(op, host, i, end_index, acc) ==
    IF i >= end_index \/ acc.raised THEN acc
    ELSE CHOOSE r \in { RunBatch(op, host, i + 1, end_index, a) :
                          a \in {BatchStep(op, host, i, acc)} } : TRUE

\* the files the batch starting at op._index can hand to the host importer
BatchPaths(op, end_index) ==
    { _entities_path \in GltfOnDisk :
        \E i \in (op._index + 1)..end_index :
            /\ op._entities[i][1] \in {"mesh", "skeletal"}
            /\ MeshRecord(op._entities[i][2], op._scale_factor,
                          MeshKey(op._entities[i][2]["Type"]), "", FALSE).import_path
               = _entities_path }

\* the host importer's behaviours during one batch, told apart only by what it
\* does with the files the batch can hand to it
BatchHosts(op, end_index) ==
    { host \in HostBehaviours :
        \A path \in GltfOnDisk \ BatchPaths(op, end_index) : host[path] = "ok" }

EndIndex_long(op) == Min(op._index + _batch_size + 1, op._total)

\* end_index = min(self._index + self._batch_size, self._total)
EndIndex(op) == Min(op._index + _batch_size, op._total)

\* "Calculate overall progress across all files", as an exact fraction
Progress(w, _index, _total) ==
    IF w.lisr_queue_total > 0
    THEN <<(w.lisr_queue_index * _total + _index) * 100, _total * w.lisr_queue_total>>
    ELSE <<_index * 100, _total>>

\* MapImporter.finish up to its call of _process_next_in_queue
FinishWm(w, op) ==
    [w EXCEPT !.lisr_completed_files =
                  Append(w.lisr_completed_files,
                         [name |-> op.json_path, entity_count |-> op._total]),
              !.lisr_total_objects = w.lisr_total_objects + op._objects_imported]

\* a TIMER event reaches the modal handler of the i-th running operator
ModalTimer(i) ==
    /\ event_timers > 0
    /\ \E host \in BatchHosts(ops[i], Min(ops[i]._index + _batch_size, ops[i]._total)) :
       \E acc \in {RunBatch(ops[i], host, ops[i]._index, EndIndex(ops[i]),
                             BatchStart(ops[i]))} :
         LET op        == ops[i]
             end_index == EndIndex(op)
             op1       == [op EXCEPT !._index = end_index,
                                     !._mesh_cache = acc._mesh_cache,
                                     !._objects_imported = acc._objects_imported,
                                     !.processed = op.processed \o acc.batch]
             w1        == [wm EXCEPT !.lisr_entity_current = end_index,
                                     !.lisr_import_progress = Progress(wm, end_index, op._total)]
             did(result, to) ==
                 [ Did("MapImporter.modal", op.json_path, result) EXCEPT
                     !.from = op._index, !.to = to, !.total = op._total,
                     !.batch = acc.batch, !.host_raised = acc.host_raised ]
         IN IF acc.raised
            THEN \* the exception leaves modal: the operator ends where it stands
                 /\ ops' = RemoveAt(ops, i)
                 /\ last' = did("raise", op._index)
                 /\ UNCHANGED <<wm, app_timers, event_timers, finished>>
            ELSE IF op1._index >= op1._total
            THEN \* self.finish(context); return {'FINISHED'}
                 /\ ops' = RemoveAt(ops, i)
                 /\ event_timers' = event_timers - 1
                 /\ wm' = ProcessNextWm(FinishWm(w1, op1))
                 /\ app_timers' = app_timers \o ProcessNextTimers(FinishWm(w1, op1))
                 /\ finished' = Append(finished,
                                       [ name |-> op1.json_path, processed |-> op1.processed,
                                         _total |-> op1._total,
                                         _objects_imported |-> op1._objects_imported ])
                 /\ last' = did("FINISHED", end_index)
            ELSE /\ ops' = [ops EXCEPT ![i] = op1]
                 /\ wm' = w1
                 /\ last' = did("PASS_THROUGH", end_index)
                 /\ UNCHANGED <<app_timers, event_timers, finished>>
    /\ UNCHANGED <<fileselect, runs, probe>>

\* MapImporter.cancel
CancelWm(w) ==
    [w EXCEPT !.lisr_import_running = FALSE,
              !.lisr_queue_total = 0,
              !.lisr_queue_index = 0,
              !.lisr_import_queue = <<>>,
              !.lisr_current_file = "",
              !.lisr_completed_files = <<>>]

\* an ESC event reaches the modal handler of the i-th running operator
ModalEsc(i) ==
    /\ event_timers' = event_timers - 1
    /\ wm' = CancelWm(wm)
    /\ ops' = RemoveAt(ops, i)
    /\ last' = Did("MapImporter.cancel", ops[i].json_path, "CANCELLED")
    /\ UNCHANGED <<app_timers, fileselect, finished, runs, probe>>

\* the file browser is dismissed without a selection
FileSelectCancel ==
    /\ fileselect
    /\ fileselect' = FALSE
    /\ last' = Did("BulkMapImporter.cancel", "", "CANCELLED")
    /\ UNCHANGED <<wm, ops, app_timers, event_timers, finished, runs, probe>>

Next ==
    \/ BulkInvoke
    \/ BulkExecute
    \/ FileSelectCancel
    \/ StartNext
    \/ \E i \in 1..Len(ops) : ModalTimer(i)
    \/ \E i \in 1..Len(ops) : ModalEsc(i)

Spec == Init /\ [][Next]_vars

BuildSpec == BuildInit /\ [][BuildNext]_vars

-----------------------------------------------------------------------------
(* Properties of the orchestrator (checked under Spec)                     *)

\* the handler that ran last was MapImporter.invoke and it gave up on a JSON
\* source that is missing or does not parse
AbortedInvoke ==
    /\ last.handler = "MapImporter.invoke"
    /\ last.result \in {"CANCELLED: JSON file not found", "raise: json.load"}

\* C1: when MapImporter.invoke gives up on a queued file whose JSON source is
\* missing or does not parse, the queue still advances: the queue position is
\* past that file and the next file's start is registered, or the run is
\* marked complete.
C1_QueueAdvancesPastBadFile ==
    AbortedInvoke =>
        \/ wm.lisr_import_complete
        \/ /\ wm.lisr_queue_index < Len(wm.lisr_import_queue)
           /\ wm.lisr_import_queue[wm.lisr_queue_index + 1] # last.path
           /\ \E k \in 1..Len(app_timers) :
                app_timers[k] = wm.lisr_import_queue[wm.lisr_queue_index + 1]

\* C2: at most one file import is running modal at any time.
C2_OneImportAtATime == Len(ops) <= 1

\* the positions from, from+1, ..., to-1
Positions(from, to) == [k \in 1..(to - from) |-> from + k - 1]

C4_CancelResetsCounters ==
    last.handler = "MapImporter.cancel" =>
        /\ event_timers = last.timers - 1
        /\ ~wm.lisr_import_running
        /\ wm.lisr_import_queue = <<>>
        /\ wm.lisr_queue_index = 0
        /\ wm.lisr_queue_total = 0
        /\ wm.lisr_entity_current = 0
        /\ wm.lisr_entity_total = 0
        /\ RatEq(wm.lisr_import_progress, Rat(0))

\* C8: when the host mesh importer raises while an entity is placed, only that
\* entity is skipped: the tick still handles every position of its batch and
\* returns normally.
C8_ImporterErrorSkipsOneEntity ==
    (last.handler = "MapImporter.modal" /\ last.host_raised) =>
        /\ last.result # "raise"
        /\ Len(last.batch) = Min(last.from + _batch_size, last.total) - last.from

-----------------------------------------------------------------------------
(* Properties of the builders (checked under BuildSpec)                    *)

Built == probe.stage = "done"

ProbeType == probe.entity["Type"]

ProbeProps == Get(probe.entity, "Properties", EmptyDict)

\* the entity has no Properties key, or an empty Properties mapping
LacksProperties == DOMAIN ProbeProps = {}

\* C5: for an entity that lacks Properties, whichever builder handles it marks
\* the record invalid with a non-empty reason and no host call is made.
C5_NoPropertiesIsInvalidWithReason ==
    (Built /\ LacksProperties) =>
        /\ probe.rec.invalid
        /\ "skip_reason" \in DOMAIN probe.rec
        /\ probe.rec["skip_reason"] # ""
        /\ probe.res.calls = <<>>

\* C6: no builder raises, whatever keys the entity lacks.
C6_AbsentKeyNeverRaises == Built => ~probe.rec.raised

\* C7: a StaticMesh or SkeletalMesh record that is invalid, for whatever
\* reason, makes no host call (no gltf import, no object creation, no
\* transform assignment) and keeps the default transform.
C7_InvalidMeshNeverReachesHost ==
    (Built /\ IsMeshType(ProbeType) /\ probe.rec.invalid) =>
        /\ probe.res.ret = "None"
        /\ probe.res.calls = <<>>
        /\ probe.res._mesh_cache = probe._mesh_cache
        /\ probe.rec.skip_reason # ""
        /\ probe.rec.pos = ZeroVec
        /\ probe.rec.rot = ZeroVec
        /\ probe.rec.scale = OneVec

\* a mesh whose file is not on disk, carrying a complete transform
C7_Witness ==
    /\ Built
    /\ IsMeshType(ProbeType)
    /\ probe.rec.invalid
    /\ probe.rec.skip_reason = "file not found"
    /\ HasAll(Get(ProbeProps, "RelativeLocation", EmptyDict), {"X", "Y", "Z"})
    /\ HasAll(Get(ProbeProps, "RelativeRotation", EmptyDict), {"Roll", "Pitch", "Yaw"})
    /\ TruthyKey(ProbeProps, "RelativeScale3D")

\* (X/100*s, -Y/100*s, Z/100*s) for s = sf[1]/sf[2]
ExpectedPos(loc, sf) ==
    << <<loc["X"] * sf[1], 100 * sf[2]>>,
       <<-(loc["Y"] * sf[1]), 100 * sf[2]>>,
       <<loc["Z"] * sf[1], 100 * sf[2]>> >>

\* (Roll, -Pitch, -Yaw)
ExpectedRot(rot) == << <<rot["Roll"], 1>>, <<-rot["Pitch"], 1>>, <<-rot["Yaw"], 1>> >>

ValidRecord == Built /\ ~probe.rec.invalid /\ ~probe.rec.raised

FullLocation(props) ==
    HasAll(Get(props, "RelativeLocation", EmptyDict), {"X", "Y", "Z"})

FullRotation(props) ==
    HasAll(Get(props, "RelativeRotation", EmptyDict), {"Roll", "Pitch", "Yaw"})

\* C9: a valid StaticMesh/SkeletalMesh record with RelativeLocation {X,Y,Z},
\* RelativeRotation {Roll,Pitch,Yaw} and scale factor s has
\* pos = (X/100*s, -Y/100*s, Z/100*s) and rot = (Roll, -Pitch, -Yaw); location
\* {100,100,100} with s = 1 gives (1,-1,1), rotation {10,20,30} gives (10,-20,-30).
C9_MeshCoordinateConversion ==
    (ValidRecord /\ IsMeshType(ProbeType)) =>
        /\ FullLocation(ProbeProps) =>
             /\ Vec3Eq(probe.rec.pos,
                       ExpectedPos(ProbeProps["RelativeLocation"], probe.scale_factor))
             /\ ( /\ \A k \in {"X", "Y", "Z"} : ProbeProps["RelativeLocation"][k] = 100
                  /\ probe.scale_factor = <<1, 1>> )
                => Vec3Eq(probe.rec.pos, <<Rat(1), Rat(-1), Rat(1)>>)
        /\ FullRotation(ProbeProps) =>
             /\ Vec3Eq(probe.rec.rot, ExpectedRot(ProbeProps["RelativeRotation"]))
             /\ ( /\ ProbeProps["RelativeRotation"]["Roll"] = 10
                  /\ ProbeProps["RelativeRotation"]["Pitch"] = 20
                  /\ ProbeProps["RelativeRotation"]["Yaw"] = 30 )
                => Vec3Eq(probe.rec.rot, <<Rat(10), Rat(-20), Rat(-30)>>)

\* a valid mesh record built from an asymmetric location under the scale factor 1/2
C9_Witness ==
    /\ ValidRecord
    /\ IsMeshType(ProbeType)
    /\ FullLocation(ProbeProps)
    /\ FullRotation(ProbeProps)
    /\ ProbeProps["RelativeLocation"]["Y"] = -50
    /\ probe.scale_factor = <<1, 2>>

\* the location a builder converts: the entity's own RelativeLocation, and for
\* a sound the RelativeLocation of its companion SceneComponent
SourceProps ==
    IF ProbeType \in _sound_types
    THEN LET lookup == build_component_lookup(probe.json)
         IN IF probe.entity["Name"] \in DOMAIN lookup
            THEN Get(lookup[probe.entity["Name"]], "Properties", EmptyDict)
            ELSE EmptyDict
    ELSE ProbeProps

\* C10: for the same source location and scale factor s, all four builders
\* produce the position (X/100*s, -Y/100*s, Z/100*s).
C10_UniformPositionRule ==
    (ValidRecord /\ FullLocation(SourceProps)) =>
        Vec3Eq(probe.rec.pos,
               ExpectedPos(SourceProps["RelativeLocation"], probe.scale_factor))

\* (X*s, Y*s, Z*s) with a missing axis taken as 1, for s = sf[1]/sf[2]
ExpectedScale(scale, sf) ==
    << <<Get(scale, "X", 1) * sf[1], sf[2]>>,
       <<Get(scale, "Y", 1) * sf[1], sf[2]>>,
       <<Get(scale, "Z", 1) * sf[1], sf[2]>> >>

CarriesScale(type) == IsMeshType(type) \/ type \in _light_types

\* C11: a valid StaticMesh, SkeletalMesh or GameLight record built under scale
\* factor s has scale (X*s, Y*s, Z*s) when RelativeScale3D is present, a
\* missing axis taken as 1, and (s, s, s) when RelativeScale3D is absent.
C11_ScaleTimesScaleFactor ==
    (ValidRecord /\ CarriesScale(ProbeType)) =>
        Vec3Eq(probe.rec.scale,
               ExpectedScale(Get(ProbeProps, "RelativeScale3D", EmptyDict),
                             probe.scale_factor))

\* positions in the file of the SceneComponent entities whose Outer is the
\* name of the sound entity
CompanionsOf(name) ==
    { i \in 1..Len(probe.json) :
        /\ Get(probe.json[i], "Type", "") = "SceneComponent"
        /\ Get(probe.json[i], "Outer", "") = name }

Max(S) == CHOOSE i \in S : \A j \in S : j <= i

\* (X/100*s, -Y/100*s, Z/100*s) of a location whose missing components are 0
ExpectedSoundPos(loc, sf) ==
    << <<Get(loc, "X", 0) * sf[1], 100 * sf[2]>>,
       <<-(Get(loc, "Y", 0) * sf[1]), 100 * sf[2]>>,
       <<Get(loc, "Z", 0) * sf[1], 100 * sf[2]>> >>

\* C19: the position of a GameSound is the converted RelativeLocation of the
\* last SceneComponent, in entity order, whose Outer is the sound's Name, and
\* (0,0,0) when there is none; a RelativeLocation of the sound entity itself
\* is never used.
C19_SoundPositionFromCompanion ==
    (Built /\ ProbeType \in _sound_types) =>
        LET mine == CompanionsOf(probe.entity["Name"])
        IN IF mine = {} THEN probe.rec.pos = ZeroVec
           ELSE LET comp == probe.json[Max(mine)]
                    loc  == Get(Get(comp, "Properties", EmptyDict),
                                "RelativeLocation", EmptyDict)
                IN Vec3Eq(probe.rec.pos, ExpectedSoundPos(loc, probe.scale_factor))

\* a sound that carries a location of its own and has two companions with
\* different locations
C19_Witness ==
    /\ Built
    /\ ProbeType \in _sound_types
    /\ FullLocation(ProbeProps)
    /\ Cardinality(CompanionsOf(probe.entity["Name"])) = 2
    /\ ~Vec3Eq(probe.rec.pos, ExpectedPos(ProbeProps["RelativeLocation"], probe.scale_factor))
    /\ ~Vec3Eq(probe.rec.pos, ZeroVec)

-----------------------------------------------------------------------------
(* Python strings.  In what follows a str is the sequence of its           *)
(* characters, so that split, strip, startswith, endswith, `in` and slices *)
(* are computed on the text itself.                                        *)

\* a + b
Concat(a, b) == a \o b

\* s.startswith(prefix)
StartsWith(s, prefix) ==
    Len(s) >= Len(prefix) /\ SubSeq(s, 1, Len(prefix)) = prefix

\* s.endswith(suffix)
EndsWith(s, suffix) ==
    Len(s) >= Len(suffix) /\ SubSeq(s, Len(s) - Len(suffix) + 1, Len(s)) = suffix

\* s.endswith(suffixes) for a tuple of suffixes
EndsWithAny(s, suffixes) == \E suffix \in suffixes : EndsWith(s, suffix)

\* sub in s
Contains(s, sub) ==
    \E i \in 1..(Len(s) - Len(sub) + 1) : SubSeq(s, i, i + Len(sub) - 1) = sub

\* s.split(sep) for a one-character separator: always at least one part
RECURSIVE Split(_, _)
Split(s, sep) ==
    IF \A i \in 1..Len(s) : s[i] # sep THEN <<s>>
    ELSE LET i == CHOOSE k \in 1..Len(s) : s[k] = sep /\ \A j \in 1..(k - 1) : s[j] # sep
         IN <<SubSeq(s, 1, i - 1)>> \o Split(SubSeq(s, i + 1, Len(s)), sep)

Whitespace == {" ", "\n", "\t", "\r"}

\* s.strip()
RECURSIVE Strip(_)
Strip(s) ==
    IF Len(s) = 0 THEN s
    ELSE IF s[1] \in Whitespace THEN Strip(Tail(s))
    ELSE IF s[Len(s)] \in Whitespace THEN Strip(SubSeq(s, 1, Len(s) - 1))
    ELSE s

\* s[:-1]
DropLast(s) == SubSeq(s, 1, Len(s) - 1)

-----------------------------------------------------------------------------
(* The File Indexer                                                        *)

\* os.walk(root_dir) is the sequence of its (subdir, files) entries in walk
\* order; os.path.join(subdir, file) is the pair of the two.
Join(subdir, file) == [subdir |-> subdir, file |-> file]

\* the entries of one directory, in order, added to index
RECURSIVE IndexFiles_first(_, _, _, _)
IndexFiles_first(index, subdir, files, extensions) ==
    IF Len(files) = 0 THEN index
    ELSE LET file == Head(files)
             next == IF EndsWithAny(file, extensions)
                     THEN index @@ (file :> Join(subdir, file))
                     ELSE index
         IN IndexFiles_first(next, subdir, Tail(files), extensions)

RECURSIVE IndexFiles(_, _, _, _)
IndexFiles(index, subdir, files, extensions) ==
    IF Len(files) = 0 THEN index
    ELSE LET file == Head(files)
             next == IF EndsWithAny(file, extensions)
                     THEN (file :> Join(subdir, file)) @@ index
                     ELSE index
         IN IndexFiles(next, subdir, Tail(files), extensions)

RECURSIVE IndexWalk(_, _, _)
IndexWalk(index, walk, extensions) ==
    IF Len(walk) = 0 THEN index
    ELSE IndexWalk(IndexFiles(index, Head(walk).subdir, Head(walk).files, extensions),
                   Tail(walk), extensions)

\* build_file_index(root_dir, extensions), root_dir given by its walk
build_file_index(walk, extensions) == IndexWalk(EmptyDict, walk, extensions)

-----------------------------------------------------------------------------
(* IndexSpec: build_file_index applied, twice, to a directory tree drawn   *)
(* from the trees below.                                                   *)

\* most directories in a tree
MaxDirs == 2

FileNames ==
    { <<"W", ".", "m", "a", "t">>, <<"W", "_", "D", ".", "t", "g", "a">>, <<"W", ".", "p", "r", "o", "p", "s", ".", "t", "x", "t">>, <<"n", ".", "t", "x", "t">>, <<"t", "g", "a">> }

\* the file lists of one directory: up to two files, no name twice
FileLists ==
    { files \in UNION { [1..n -> FileNames] : n \in 0..2 } :
        \A i, j \in 1..Len(files) : i # j => files[i] # files[j] }

SubdirNames == <<"root", "root/a", "root/b", "root/b/c">>

\* the walks of the trees with n directories
Walks(n) ==
    { [ i \in 1..n |-> [subdir |-> SubdirNames[i], files |-> lists[i]] ] :
        lists \in [1..n -> FileLists] }

ExtensionTuples ==
    { { <<".", "m", "a", "t">>, <<".", "t", "g", "a">>, <<".", "p", "r", "o", "p", "s", ".", "t", "x", "t">> }, { <<".", "t", "g", "a">> }, { <<".", "t", "x", "t">> } }

IndexInit ==
    /\ OrchIdle
    /\ \E n \in 1..MaxDirs : \E walk \in Walks(n), extensions \in ExtensionTuples :
         probe = [ stage |-> "walk", walk |-> walk, extensions |-> extensions,
                   index |-> EmptyDict, again |-> EmptyDict ]

\* the first run of the indexer
IndexBuild ==
    /\ probe.stage = "walk"
    /\ probe' = [probe EXCEPT !.stage = "indexed",
                              !.index = build_file_index(probe.walk, probe.extensions)]
    /\ UNCHANGED orch_vars

\* a second run over the unchanged tree
IndexRebuild ==
    /\ probe.stage = "indexed"
    /\ probe' = [probe EXCEPT !.stage = "reindexed",
                              !.again = build_file_index(probe.walk, probe.extensions)]
    /\ UNCHANGED orch_vars

IndexNext == IndexBuild \/ IndexRebuild

IndexSpec == IndexInit /\ [][IndexNext]_vars

\* the directories of the walk, by position, that hold the file name
Occurrences(walk, file) ==
    { d \in 1..Len(walk) : \E i \in 1..Len(walk[d].files) : walk[d].files[i] = file }

FilesOf(walk) ==
    UNION { { walk[d].files[i] : i \in 1..Len(walk[d].files) } : d \in 1..Len(walk) }

\* the last directory of the walk that holds the file name
LastSubdir(walk, file) ==
    LET ds == Occurrences(walk, file)
    IN walk[CHOOSE d \in ds : \A e \in ds : e <= d].subdir

\* C18: the keys of the index are exactly the file names of the tree that end
\* with one of the extensions, each mapped to the path of the last file of
\* that name in walk order; a second run over the unchanged tree gives the
\* same mapping.
C18_IndexKeysAndIdempotence ==
    (probe.stage \in {"indexed", "reindexed"}) =>
        /\ DOMAIN probe.index =
             { file \in FilesOf(probe.walk) : EndsWithAny(file, probe.extensions) }
        /\ \A file \in DOMAIN probe.index :
             probe.index[file] = Join(LastSubdir(probe.walk, file), file)
        /\ probe.stage = "reindexed" => probe.again = probe.index

\* indexed twice: a tree where one indexed name is in two directories and
\* another file is left out
C18_Witness ==
    /\ probe.stage = "reindexed"
    /\ \E file \in DOMAIN probe.index : Cardinality(Occurrences(probe.walk, file)) = 2
    /\ \E file \in FilesOf(probe.walk) : file \notin DOMAIN probe.index

-----------------------------------------------------------------------------
(* Reference chains: build_anim_actor_mapping                              *)

\* the characters \w matches, among those the inputs are written with
WordChars ==
    { "A", "B", "C", "D", "E", "F", "G", "H", "I", "J", "K", "L", "M", "N", "O",
      "P", "Q", "R", "S", "T", "U", "V", "W", "X", "Y", "Z",
      "a", "b", "c", "d", "e", "f", "g", "h", "i", "j", "k", "l", "m", "n", "o",
      "p", "q", "r", "s", "t", "u", "v", "w", "x", "y", "z",
      "0", "1", "2", "3", "4", "5", "6", "7", "8", "9", "_" }

\* re.search(r"\.(\w+)'$", s): group 1, or the empty string when there is no
\* match (a match never has an empty group)
SearchActorName(s) ==
    LET n    == Len(s)
        dots == { i \in 1..(n - 2) :
                    s[i] = "." /\ \A j \in (i + 1)..(n - 1) : s[j] \in WordChars }
    IN IF n >= 3 /\ s[n] = "'" /\ dots # {}
       THEN SubSeq(s, (CHOOSE i \in dots : TRUE) + 1, n - 1)
       ELSE <<>>

\* re.search(r"SkeletalMesh'([^']+)'", s): group 1 of the leftmost match, or
\* the empty string when there is no match
SearchMeshName(s) ==
    LET tag    == <<"S", "k", "e", "l", "e", "t", "a", "l", "M", "e", "s", "h", "'">>
        k      == Len(tag)
        closes(i) == { j \in (i + k + 1)..Len(s) : s[j] = "'" }
        starts == { i \in 1..(Len(s) - k - 1) :
                      /\ SubSeq(s, i, i + k - 1) = tag
                      /\ s[i + k] # "'"
                      /\ closes(i) # {} }
    IN IF starts = {} THEN <<>>
       ELSE LET i == CHOOSE a \in starts : \A b \in starts : a <= b
                j == CHOOSE a \in closes(i) : \A b \in closes(i) : a <= b
            IN SubSeq(s, i + k, j - 1)

\* the short name of the first actor that is not None, whatever it names
RECURSIVE first_actor_any(_)
first_actor_any(actors) ==
    IF Len(actors) = 0 THEN <<>>
    ELSE LET actor == Head(actors)
         IN IF IsNone(actor) THEN first_actor_any(Tail(actors))
            ELSE SearchActorName(Get(actor, "ObjectName", <<>>))

\* the inner loop over info["Actors"]: the short name of the first actor that
\* is not None, names a SkeletalMeshActorMAT and matches; empty when none does
RECURSIVE first_actor(_)
first_actor(actors) ==
    IF Len(actors) = 0 THEN <<>>
    ELSE LET actor == Head(actors)
             actor_obj_name == IF IsNone(actor) THEN <<>>
                               ELSE Get(actor, "ObjectName", <<>>)
             actor_name == SearchActorName(actor_obj_name)
         IN IF ~IsNone(actor)
               /\ Contains(actor_obj_name, <<"S", "k", "e", "l", "e", "t", "a", "l", "M", "e", "s", "h", "A", "c", "t", "o", "r", "M", "A", "T">>)
               /\ actor_name # <<>>
            THEN actor_name
            ELSE first_actor(Tail(actors))

\* the loop over props["GroupActorInfos"]
RECURSIVE group_infos(_, _)
group_infos(group_to_actor, infos) ==
    IF Len(infos) = 0 THEN group_to_actor
    ELSE LET info       == Head(infos)
             group_name == Get(info, "ObjectName", "")
             actors     == Get(info, "Actors", <<>>)
             actor_name == first_actor(actors)
         IN group_infos(IF Len(actors) > 0 /\ group_name # "" /\ actor_name # <<>>
                        THEN (group_name :> actor_name) @@ group_to_actor
                        ELSE group_to_actor,
                        Tail(infos))

\* step 1: InterpGroup name -> actor name, from the MatineeActor entities
RECURSIVE build_group_to_actor(_, _)
build_group_to_actor(group_to_actor, json_entities) ==
    IF Len(json_entities) = 0 THEN group_to_actor
    ELSE LET entity == Head(json_entities)
             props  == Get(entity, "Properties", EmptyDict)
         IN build_group_to_actor(
                IF Get(entity, "Type", "") # "MatineeActor" THEN group_to_actor
                ELSE group_infos(group_to_actor, Get(props, "GroupActorInfos", <<>>)),
                Tail(json_entities))

\* step 2: actor name -> skeletal mesh name, from the SkeletalMeshComponent
\* entities
RECURSIVE build_actor_to_mesh(_, _)
build_actor_to_mesh(actor_to_mesh, json_entities) ==
    IF Len(json_entities) = 0 THEN actor_to_mesh
    ELSE LET entity    == Head(json_entities)
             outer     == Get(entity, "Outer", <<>>)
             props     == Get(entity, "Properties", EmptyDict)
             mesh_ref  == Get(props, "SkeletalMesh", EmptyDict)
             mesh_name == SearchMeshName(Get(mesh_ref, "ObjectName", <<>>))
         IN build_actor_to_mesh(
                IF Get(entity, "Type", "") = "SkeletalMeshComponent"
                   /\ outer # <<>> /\ mesh_name # <<>>
                THEN (outer :> mesh_name) @@ actor_to_mesh
                ELSE actor_to_mesh,
                Tail(json_entities))

\* step 3: the composition of the two
build_anim_actor_mapping(json_entities) ==
    LET group_to_actor == build_group_to_actor(EmptyDict, json_entities)
        actor_to_mesh  == build_actor_to_mesh(EmptyDict, json_entities)
        groups == { g \in DOMAIN group_to_actor : group_to_actor[g] \in DOMAIN actor_to_mesh }
    IN [ g \in groups |-> actor_to_mesh[group_to_actor[g]] ]

-----------------------------------------------------------------------------
(* AnimSpec: build_anim_actor_mapping applied to the entities of one file, *)
(* drawn from the shapes below.                                            *)

Actor_MAT_9 == [ObjectName |-> <<"S", "k", "e", "l", "e", "t", "a", "l", "M", "e", "s", "h", "A", "c", "t", "o", "r", "M", "A", "T", "'", "E", "1", ":", "P", "L", ".", "S", "k", "e", "l", "e", "t", "a", "l", "M", "e", "s", "h", "A", "c", "t", "o", "r", "M", "A", "T", "_", "9", "'">>]

Actor_MAT_7 == [ObjectName |-> <<"S", "k", "e", "l", "e", "t", "a", "l", "M", "e", "s", "h", "A", "c", "t", "o", "r", "M", "A", "T", "'", "E", "1", ":", "P", "L", ".", "S", "k", "e", "l", "e", "t", "a", "l", "M", "e", "s", "h", "A", "c", "t", "o", "r", "M", "A", "T", "_", "7", "'">>]

Actor_Camera == [ObjectName |-> <<"C", "a", "m", "e", "r", "a", "A", "c", "t", "o", "r", "'", "E", "1", ":", "P", "L", ".", "C", "a", "m", "e", "r", "a", "A", "c", "t", "o", "r", "_", "1", "'">>]

\* a SkeletalMeshActorMAT reference without a '.' before the short name
Actor_NoDot == [ObjectName |-> <<"S", "k", "e", "l", "e", "t", "a", "l", "M", "e", "s", "h", "A", "c", "t", "o", "r", "M", "A", "T", "'", "S", "k", "e", "l", "e", "t", "a", "l", "M", "e", "s", "h", "A", "c", "t", "o", "r", "M", "A", "T", "_", "9", "'">>]

Actor_NoName == [ObjectPath |-> <<"E", "1", ".", "3">>]

\* value of info["Actors"]; 0 stands for an absent key
ActorsShapes == 0..7

Actors(a) ==
    CASE a = 1 -> <<>>
      [] a = 2 -> <<None, Actor_MAT_9>>
      [] a = 3 -> <<Actor_Camera, Actor_MAT_9>>
      [] a = 4 -> <<Actor_MAT_9, Actor_MAT_7>>
      [] a = 5 -> <<Actor_Camera>>
      [] a = 6 -> <<Actor_NoDot, Actor_MAT_7>>
      [] a = 7 -> <<Actor_NoName, None>>

\* info["ObjectName"]; 0 stands for an absent key
GroupNames == <<"InterpGroup_2", "InterpGroup_5">>

GroupActorInfo(g, a) ==
    Key(g # 0, "ObjectName", GroupNames[IF g = 0 THEN 1 ELSE g])
    @@ Key(a # 0, "Actors", Actors(a))

GroupActorInfos ==
    { <<GroupActorInfo(g, a)>> : g \in 0..2, a \in ActorsShapes }
    \cup { <<GroupActorInfo(g, a), GroupActorInfo(h, b)>> :
             g \in 1..2, a \in 2..6, h \in 1..2, b \in 2..6 }

MatineeActor(infos) ==
    [Type |-> "MatineeActor", Name |-> <<"M", "a", "t", "i", "n", "e", "e", "A", "c", "t", "o", "r", "_", "0">>, Outer |-> <<"P", "L">>,
     Properties |-> [GroupActorInfos |-> infos]]

\* a SkeletalMeshComponent; an empty mesh stands for no SkeletalMesh key
SkeletalMeshComponent(outer, mesh) ==
    [Type |-> "SkeletalMeshComponent", Name |-> <<"S", "k", "e", "l", "e", "t", "a", "l", "M", "e", "s", "h", "C", "o", "m", "p", "o", "n", "e", "n", "t", "0">>, Outer |-> outer,
     Properties |-> Key(mesh # <<>>, "SkeletalMesh", [ObjectName |-> mesh])]

Mesh_Hayden == <<"S", "k", "e", "l", "e", "t", "a", "l", "M", "e", "s", "h", "'", "C", "H", "_", "H", "a", "y", "d", "e", "n", "'">>

Mesh_Max == <<"S", "k", "e", "l", "e", "t", "a", "l", "M", "e", "s", "h", "'", "C", "H", "_", "M", "a", "x", "'">>

Mesh_Chair == <<"S", "t", "a", "t", "i", "c", "M", "e", "s", "h", "'", "C", "h", "a", "i", "r", "'">>

ComponentLists ==
    { <<>>,
      <<SkeletalMeshComponent(<<"S", "k", "e", "l", "e", "t", "a", "l", "M", "e", "s", "h", "A", "c", "t", "o", "r", "M", "A", "T", "_", "9">>, Mesh_Hayden)>>,
      <<SkeletalMeshComponent(<<"S", "k", "e", "l", "e", "t", "a", "l", "M", "e", "s", "h", "A", "c", "t", "o", "r", "M", "A", "T", "_", "9">>, Mesh_Hayden),
        SkeletalMeshComponent(<<"S", "k", "e", "l", "e", "t", "a", "l", "M", "e", "s", "h", "A", "c", "t", "o", "r", "M", "A", "T", "_", "9">>, Mesh_Max)>>,
      <<SkeletalMeshComponent(<<"S", "k", "e", "l", "e", "t", "a", "l", "M", "e", "s", "h", "A", "c", "t", "o", "r", "M", "A", "T", "_", "9">>, Mesh_Hayden),
        SkeletalMeshComponent(<<"S", "k", "e", "l", "e", "t", "a", "l", "M", "e", "s", "h", "A", "c", "t", "o", "r", "M", "A", "T", "_", "9">>, Mesh_Chair)>>,
      <<SkeletalMeshComponent(<<"S", "k", "e", "l", "e", "t", "a", "l", "M", "e", "s", "h", "A", "c", "t", "o", "r", "M", "A", "T", "_", "9">>, Mesh_Hayden),
        SkeletalMeshComponent(<<"S", "k", "e", "l", "e", "t", "a", "l", "M", "e", "s", "h", "A", "c", "t", "o", "r", "M", "A", "T", "_", "7">>, Mesh_Max)>>,
      <<SkeletalMeshComponent(<<"S", "k", "e", "l", "e", "t", "a", "l", "M", "e", "s", "h", "A", "c", "t", "o", "r", "M", "A", "T", "_", "7">>, Mesh_Max)>>,
      <<SkeletalMeshComponent(<<"S", "k", "e", "l", "e", "t", "a", "l", "M", "e", "s", "h", "A", "c", "t", "o", "r", "M", "A", "T", "_", "9">>, <<>>)>>,
      <<SkeletalMeshComponent(<<"C", "a", "m", "e", "r", "a", "A", "c", "t", "o", "r", "_", "1">>, Mesh_Hayden)>>,
      <<SkeletalMeshComponent(<<>>, Mesh_Hayden)>> }

AnimInit ==
    /\ OrchIdle
    /\ \E infos \in GroupActorInfos, comps \in ComponentLists, matinee_first \in BOOLEAN :
         probe = [ stage |-> "entities",
                   json  |-> IF matinee_first THEN <<MatineeActor(infos)>> \o comps
                             ELSE comps \o <<MatineeActor(infos)>>,
                   group_to_mesh |-> EmptyDict ]

\* MapImporter.invoke: self._group_to_mesh = build_anim_actor_mapping(json_object)
AnimMap ==
    /\ probe.stage = "entities"
    /\ probe' = [probe EXCEPT !.stage = "mapped",
                              !.group_to_mesh = build_anim_actor_mapping(probe.json)]
    /\ UNCHANGED orch_vars

AnimNext == AnimMap

AnimSpec == AnimInit /\ [][AnimNext]_vars

\* the group-to-actor references of the file, in order, as <<entity, info>>
InfoPositions ==
    { <<e, k>> \in (1..Len(probe.json)) \X (1..2) :
        /\ probe.json[e]["Type"] = "MatineeActor"
        /\ k <= Len(probe.json[e]["Properties"]["GroupActorInfos"]) }

InfoAt(pos) == probe.json[pos[1]]["Properties"]["GroupActorInfos"][pos[2]]

Before(p, q) == p[1] < q[1] \/ (p[1] = q[1] /\ p[2] <= q[2])

NotNone(actor) == ~IsNone(actor)

\* not None, names a SkeletalMeshActorMAT, and ends in .<short name>'
IsActorMAT(actor) ==
    /\ ~IsNone(actor)
    /\ Contains(Get(actor, "ObjectName", <<>>), <<"S", "k", "e", "l", "e", "t", "a", "l", "M", "e", "s", "h", "A", "c", "t", "o", "r", "M", "A", "T">>)
    /\ SearchActorName(Get(actor, "ObjectName", <<>>)) # <<>>

\* the short name of the first actor entry of the reference that Q admits
ChosenActor(info, Q(_)) ==
    LET actors == Get(info, "Actors", <<>>)
        admitted == { i \in 1..Len(actors) : Q(actors[i]) }
    IN IF admitted = {} THEN <<>>
       ELSE SearchActorName(Get(actors[CHOOSE i \in admitted : \A j \in admitted : i <= j],
                                "ObjectName", <<>>))

\* the actor of group G: that of the last reference for G that yields one
ActorOfGroup(G, Q(_)) ==
    LET yielding == { pos \in InfoPositions :
                        /\ Get(InfoAt(pos), "ObjectName", "") = G
                        /\ ChosenActor(InfoAt(pos), Q) # <<>> }
    IN IF yielding = {} THEN <<>>
       ELSE ChosenActor(InfoAt(CHOOSE p \in yielding : \A q \in yielding : Before(q, p)), Q)

\* the mesh M of the last SkeletalMeshComponent with Outer = A that
\* references SkeletalMesh'M'
MeshOfActor(A) ==
    LET comps == { e \in 1..Len(probe.json) :
                     /\ probe.json[e]["Type"] = "SkeletalMeshComponent"
                     /\ probe.json[e]["Outer"] = A
                     /\ SearchMeshName(Get(Get(probe.json[e]["Properties"], "SkeletalMesh",
                                               EmptyDict), "ObjectName", <<>>)) # <<>> }
    IN IF A = <<>> \/ comps = {} THEN <<>>
       ELSE SearchMeshName(
                probe.json[CHOOSE e \in comps : \A f \in comps : f <= e]
                    ["Properties"]["SkeletalMesh"]["ObjectName"])

\* the composition of the two stages under the actor rule Q
ComposedMapping(Q(_)) ==
    LET groups == { G \in {GroupNames[1], GroupNames[2]} : MeshOfActor(ActorOfGroup(G, Q)) # <<>> }
    IN [ G \in groups |-> MeshOfActor(ActorOfGroup(G, Q)) ]

\* C20 as stated: group G maps to mesh M exactly when the first non-null actor
\* entry of G's group-to-actor reference has short name A and a
\* SkeletalMeshComponent with Outer = A references SkeletalMesh'M'.
C20_FirstNonNullActor ==
    probe.stage = "mapped" => probe.group_to_mesh = ComposedMapping(NotNone)

\* C20, amended: group G maps to mesh M exactly when the first actor entry of
\* G's reference that is not null, names a SkeletalMeshActorMAT and ends in
\* .<short name>' has short name A, and a SkeletalMeshComponent with
\* Outer = A references SkeletalMesh'M'; on duplicates the last reference and
\* the last component win.
C20_FirstSkeletalMeshActorMAT ==
    probe.stage = "mapped" => probe.group_to_mesh = ComposedMapping(IsActorMAT)

\* a group mapped to a mesh through a reference whose first non-null actor
\* entry is not a SkeletalMeshActorMAT
C20_Witness ==
    /\ probe.stage = "mapped"
    /\ \E pos \in InfoPositions :
         /\ Get(InfoAt(pos), "ObjectName", "") \in DOMAIN probe.group_to_mesh
         /\ Len(Get(InfoAt(pos), "Actors", <<>>)) > 0
         /\ ~IsActorMAT(InfoAt(pos)["Actors"][1])
         /\ ChosenActor(InfoAt(pos), IsActorMAT) # <<>>

-----------------------------------------------------------------------------
(* The audio fuzzy matcher                                                 *)

UpperToLower ==
    "A" :> "a" @@ "B" :> "b" @@ "C" :> "c" @@ "D" :> "d" @@ "E" :> "e" @@ "F" :> "f"
    @@ "G" :> "g" @@ "H" :> "h" @@ "I" :> "i" @@ "J" :> "j" @@ "K" :> "k" @@ "L" :> "l"
    @@ "M" :> "m" @@ "N" :> "n" @@ "O" :> "o" @@ "P" :> "p" @@ "Q" :> "q" @@ "R" :> "r"
    @@ "S" :> "s" @@ "T" :> "t" @@ "U" :> "u" @@ "V" :> "v" @@ "W" :> "w" @@ "X" :> "x"
    @@ "Y" :> "y" @@ "Z" :> "z"

\* s.lower()
Lower(s) == [ i \in 1..Len(s) |-> IF s[i] \in DOMAIN UpperToLower THEN UpperToLower[s[i]] ELSE s[i] ]

\* the tokens dropped from the keywords
StopList == { <<"a">>, <<"p", "l", "a", "y">>, <<"s">>, <<"s", "f", "x">>, <<"a", "m", "b">> }

\* [kw.lower() for kw in audio_id.split('_') if len(kw) > 1], without the
\* stoplist tokens
Keywords(audio_id) ==
    LET parts == Split(audio_id, "_")
        long  == SelectSeq(parts, LAMBDA kw : Len(kw) > 1)
        lower == [ i \in 1..Len(long) |-> Lower(long[i]) ]
    IN SelectSeq(lower, LAMBDA kw : kw \notin StopList)

\* number of positions of a sequence that satisfy P
Count(seq, P(_)) == Cardinality({ i \in 1..Len(seq) : P(seq[i]) })

\* twice the score of one indexed name (the bonus is a half per keyword)
Score2(keywords, name) ==
    LET name_lower == Lower(name)
        score      == Count(keywords, LAMBDA kw : Contains(name_lower, kw))
        split      == Split(name_lower, "_")
        name_parts == { split[i] : i \in 1..Len(split) }
        exact_matches == Count(keywords, LAMBDA kw : kw \in name_parts)
    IN IF score > 0 THEN 2 * score + exact_matches ELSE 0

\* as BestOf, but a later name with the same score replaces an earlier one
RECURSIVE BestOf_last(_, _, _)
BestOf_last(best, keywords, items) ==
    IF Len(items) = 0 THEN best
    ELSE LET score2 == Score2(keywords, Head(items).name)
         IN BestOf_last(IF score2 >= best.score2
                        THEN [match |-> Head(items).path, score2 |-> score2]
                        ELSE best,
                        keywords, Tail(items))

\* the loop over self._audio_index.items(), in insertion order
RECURSIVE BestOf(_, _, _)
BestOf(best, keywords, items) ==
    IF Len(items) = 0 THEN best
    ELSE LET score2 == Score2(keywords, Head(items).name)
         IN BestOf(IF score2 > best.score2
                   THEN [match |-> Head(items).path, score2 |-> score2]
                   ELSE best,
                   keywords, Tail(items))

Max2(a, b) == IF a >= b THEN a ELSE b

\* MapImporter._fuzzy_match_audio; _audio_index is the sequence of its
\* (name, path) items in insertion order
_fuzzy_match_audio(audio_id, _audio_index) ==
    IF Len(audio_id) = 0 \/ Len(_audio_index) = 0 THEN None
    ELSE LET keywords == Keywords(audio_id)
         IN IF Len(keywords) = 0 THEN None
            ELSE LET best == BestOf([match |-> None, score2 |-> 0], keywords, _audio_index)
                     min_required == Max2(1, Len(keywords) \div 2)
                 IN IF best.score2 >= 2 * min_required THEN best.match ELSE None

-----------------------------------------------------------------------------
(* FuzzySpec: _fuzzy_match_audio applied to a candidate name and an audio  *)
(* index drawn from the names below.                                       *)

AudioIds ==
    { <<>>, <<"A", "_", "S">>, <<"A", "_", "N", "e", "x", "t", "D", "o", "o", "r", "_", "S", "k", "a", "t", "e">>, <<"P", "l", "a", "y", "_", "D", "o", "o", "r">>, <<"S", "k", "a", "t", "e", "_", "S", "k", "a", "t", "e">>,
      <<"N", "e", "x", "t", "D", "o", "o", "r", "_", "S", "k", "a", "t", "e", "_", "P", "a", "r", "k", "_", "N", "i", "g", "h", "t">>, <<"B", "i", "r", "d", "_", "C", "a", "t", "_", "D", "o", "g", "_", "F", "o", "x">>, <<"S", "K", "A", "T", "E">>,
      <<"B", "i", "r", "d", "_", "C", "a", "t", "_", "D", "o", "g">> }

IndexedNames ==
    { <<"a", "_", "e", "1", "_", "s", "0", "2", "_", "c", "l", "a", "s", "s", "a", "r", "t", "_", "n", "e", "x", "t", "d", "o", "o", "r", "_", "s", "k", "a", "t", "e", "_", "0", "1">>, <<"A", "_", "E", "1", "_", "S", "k", "a", "t", "e", "_", "P", "a", "r", "k">>, <<"N", "e", "x", "t", "D", "o", "o", "r">>,
      <<"A", "_", "B", "i", "r", "d", "_", "0", "1">>, <<"S", "k", "a", "t", "e", "_", "N", "e", "x", "t", "D", "o", "o", "r", "_", "0", "2">> }

\* the audio indexes: up to three names, no name twice
AudioIndexes ==
    { [ i \in 1..Len(names) |-> [name |-> names[i], path |-> Join("Audio", names[i])] ] :
        names \in { ns \in UNION { [1..n -> IndexedNames] : n \in 0..3 } :
                      \A i, j \in 1..Len(ns) : i # j => ns[i] # ns[j] } }

FuzzyInit ==
    /\ OrchIdle
    /\ \E audio_id \in AudioIds, _audio_index \in AudioIndexes :
         probe = [ stage |-> "candidate", audio_id |-> audio_id,
                   _audio_index |-> _audio_index, audio_path |-> None ]

\* _import_sound_entity: audio_path = self._fuzzy_match_audio(names_to_try[0])
FuzzyMatch ==
    /\ probe.stage = "candidate"
    /\ probe' = [probe EXCEPT !.stage = "matched",
                              !.audio_path = _fuzzy_match_audio(probe.audio_id, probe._audio_index)]
    /\ UNCHANGED orch_vars

FuzzyNext == FuzzyMatch

FuzzySpec == FuzzyInit /\ [][FuzzyNext]_vars

\* twice (substring count + 0.5 * whole-segment count) of the keywords
\* against one indexed name
ClaimedScore2(keywords, name) ==
    LET segments == Split(Lower(name), "_")
    IN 2 * Cardinality({ i \in 1..Len(keywords) : Contains(Lower(name), keywords[i]) })
       + Cardinality({ i \in 1..Len(keywords) :
                         \E k \in 1..Len(segments) : segments[k] = keywords[i] })

-----------------------------------------------------------------------------
(* The material importer: the legacy .mat parser                           *)

\* the texture names read from a .mat file, all empty before the first line
NoTextureNames == [diffuse |-> <<>>, normal |-> <<>>, spec |-> <<>>, rough |-> <<>>]

\* src/src/LiSR_mapimporter.py: the body of `for line in mat_file`
MatLine(names, line) ==
    IF ~(\E prefix \in { <<"D", "i", "f", "f", "u", "s", "e">>, <<"N", "o", "r", "m", "a", "l">>, <<"S", "p", "e", "c", "P", "o", "w", "e", "r">>, <<"O", "t", "h", "e", "r", "[">> } :
            StartsWith(line, prefix))
    THEN names
    ELSE LET splitline == Split(line, "=")
         IN IF Len(splitline) <= 1 THEN names
            ELSE LET key   == splitline[1]
                     value == Strip(splitline[2])
                 IN IF key = <<"D", "i", "f", "f", "u", "s", "e">> THEN [names EXCEPT !.diffuse = value]
                    ELSE IF key = <<"N", "o", "r", "m", "a", "l">> THEN [names EXCEPT !.normal = value]
                    ELSE IF key = <<"S", "p", "e", "c", "P", "o", "w", "e", "r">> THEN [names EXCEPT !.spec = value]
                    ELSE IF StartsWith(key, <<"O", "t", "h", "e", "r", "[">>) /\ EndsWith(value, <<"R">>)
                         THEN [names EXCEPT !.rough = value]
                    ELSE names

RECURSIVE MatLines(_, _)
MatLines(names, lines) ==
    IF Len(lines) = 0 THEN names
    ELSE With(MatLine(names, Head(lines)), LAMBDA next : MatLines(next, Tail(lines)))

\* src/src/LiSR_mapimporter.py: the texture names of a .mat file, with the
\* roughness name derived from the diffuse name when no line gave one
parse_mat(lines) ==
    With(MatLines(NoTextureNames, lines), LAMBDA names :
         IF names.rough = <<>> /\ names.diffuse # <<>>
         THEN [names EXCEPT !.rough = Concat(DropLast(names.diffuse), <<"R">>)]
         ELSE names)

\* src/main.py: the body of `for line in lines`; the value of an Other[ line
\* is tested before it is stripped, and the else belongs to that test alone
main_MatLine(names, line) ==
    IF ~(\E prefix \in { <<"D", "i", "f", "f", "u", "s", "e">>, <<"N", "o", "r", "m", "a", "l">>, <<"S", "p", "e", "c", "P", "o", "w", "e", "r">>, <<"O", "t", "h", "e", "r", "[", "0", "]">> } :
            StartsWith(line, prefix))
    THEN names
    ELSE LET splitline == Split(line, "=")
         IN IF Len(splitline) <= 1 THEN names
            ELSE LET key == splitline[1]
                     n1  == IF key = <<"D", "i", "f", "f", "u", "s", "e">>
                            THEN [names EXCEPT !.diffuse = Strip(splitline[2])] ELSE names
                     n2  == IF key = <<"N", "o", "r", "m", "a", "l">>
                            THEN [n1 EXCEPT !.normal = Strip(splitline[2])] ELSE n1
                     n3  == IF key = <<"S", "p", "e", "c", "P", "o", "w", "e", "r">>
                            THEN [n2 EXCEPT !.spec = Strip(splitline[2])] ELSE n2
                 IN IF StartsWith(key, <<"O", "t", "h", "e", "r", "[">>) /\ EndsWith(splitline[2], <<"R">>)
                    THEN [n3 EXCEPT !.rough = Strip(splitline[2])]
                    ELSE [n3 EXCEPT !.rough = Concat(DropLast(n3.diffuse), <<"R">>)]

RECURSIVE main_MatLines(_, _)
main_MatLines(names, lines) ==
    IF Len(lines) = 0 THEN names
    ELSE With(main_MatLine(names, Head(lines)),
              LAMBDA next : main_MatLines(next, Tail(lines)))

\* src/main.py: the texture names of a .mat file
main_parse_mat(lines) == main_MatLines(NoTextureNames, lines)

-----------------------------------------------------------------------------
(* The material importer: alpha test and shader graph                      *)

\* an image is [readable, alpha]: whether bpy.data.images.load succeeds, and
\* the alpha values of its pixels in hundredths
has_alpha_variation(image) ==
    IF ~image.readable THEN FALSE
    ELSE LET alpha_samples == SubSeq(image.alpha, 1, Min(1000, Len(image.alpha)))
             values        == { alpha_samples[i] : i \in 1..Len(alpha_samples) }
         IN IF Len(alpha_samples) = 0 THEN FALSE
            ELSE LET min_alpha == CHOOSE a \in values : \A b \in values : a <= b
                     max_alpha == CHOOSE a \in values : \A b \in values : b <= a
                 IN max_alpha - min_alpha > 10

\* a scalar that is None
Unset == <<>>

\* the output sockets the host gives each shader node type
OutputSockets ==
    [ ShaderNodeBsdfTransparent |-> {"BSDF"},
      ShaderNodeEmission        |-> {"Emission"},
      ShaderNodeBsdfPrincipled  |-> {"BSDF"} ]

Link(to, from) == <<to, from>>

\* the graph _setup_material_nodes starts from: the Material Output node only
EmptyGraph ==
    [ shader |-> "", nodes |-> {}, links |-> {}, strength |-> Unset,
      roughness |-> Unset, specular |-> Unset, raised |-> FALSE ]

\* the diffuse texture of the decal and additive topologies
ColorTexture(graph, diffuse_path) ==
    IF IsNone(diffuse_path) THEN graph
    ELSE [graph EXCEPT !.nodes = @ \cup {"diffuse_texture"},
                       !.links = @ \cup {Link("shader.Color", "diffuse_texture.Color")}]

\* the principled topology
Principled(diffuse_path, normal_path, spec_path, rough_path, brightness_mult, roughness_value, spec_value, use_normal_alpha_roughness) ==
    LET g0 == [EmptyGraph EXCEPT
                 !.shader = "ShaderNodeBsdfPrincipled",
                 !.roughness = IF roughness_value # Unset /\ IsNone(rough_path)
                                  /\ ~use_normal_alpha_roughness
                               THEN roughness_value ELSE Unset,
                 !.specular = IF spec_value # Unset /\ IsNone(spec_path)
                              THEN spec_value ELSE Unset]
        g1 == IF IsNone(diffuse_path) THEN g0
              ELSE IF ~RatEq(brightness_mult, Rat(1))
                   THEN [g0 EXCEPT
                           !.nodes = @ \cup {"diffuse_texture", "multiply_node"},
                           !.links = @ \cup { Link("multiply_node.A", "diffuse_texture.Color"),
                                              Link("shader.Base Color", "multiply_node.Result"),
                                              Link("shader.Alpha", "diffuse_texture.Alpha") }]
                   ELSE [g0 EXCEPT
                           !.nodes = @ \cup {"diffuse_texture"},
                           !.links = @ \cup { Link("shader.Base Color", "diffuse_texture.Color"),
                                              Link("shader.Alpha", "diffuse_texture.Alpha") }]
        g2 == IF IsNone(normal_path) THEN g1
              ELSE [g1 EXCEPT
                      !.nodes = @ \cup { "normal_texture", "normal_map_node", "separate_color",
                                         "invert_node", "combine_color" },
                      !.links = @ \cup { Link("separate_color.Color", "normal_texture.Color"),
                                         Link("invert_node.Color", "separate_color.Green"),
                                         Link("combine_color.Red", "separate_color.Red"),
                                         Link("combine_color.Green", "invert_node.Color"),
                                         Link("combine_color.Blue", "separate_color.Blue"),
                                         Link("normal_map_node.Color", "combine_color.Color"),
                                         Link("shader.Normal", "normal_map_node.Normal") }
                                 \cup (IF use_normal_alpha_roughness
                                       THEN {Link("shader.Roughness", "normal_texture.Alpha")}
                                       ELSE {})]
        g3 == IF IsNone(spec_path) THEN g2
              ELSE [g2 EXCEPT !.nodes = @ \cup {"spec_texture"},
                              !.links = @ \cup {Link("shader.inputs[13]", "spec_texture.Color")}]
    \* inputs[2] of the Principled BSDF is its Roughness input
    IN IF ~IsNone(rough_path) /\ ~use_normal_alpha_roughness
       THEN [g3 EXCEPT !.nodes = @ \cup {"rough_texture"},
                       !.links = @ \cup {Link("shader.Roughness", "rough_texture.Color")}]
       ELSE g3

\* MaterialImporter._setup_material_nodes, for a material that has a node
\* tree and a Material Output node; name is material.name
_setup_material_nodes(name, diffuse_path, normal_path, spec_path, rough_path, props_data, use_normal_alpha_roughness) ==
    LET is_decal    == Contains(name, <<"D", "e", "c", "a", "l", "s">>)
        is_additive == ~IsNone(props_data) /\ Get(props_data, "blend_mode", 0) = 3
        scalar_params == IF IsNone(props_data) THEN EmptyDict
                         ELSE Get(props_data, "scalar_params", EmptyDict)
        brightness_mult == Get(scalar_params, "BrightnessMult", Rat(1))
        roughness_value == Get(scalar_params, "Roughness",
                               Get(scalar_params, "RoughnessValue1", Unset))
        spec_value == Get(scalar_params, "Spec", Get(scalar_params, "Specular", Unset))
        built ==
            IF is_decal
            THEN ColorTexture([EmptyGraph EXCEPT !.shader = "ShaderNodeBsdfTransparent"],
                              diffuse_path)
            ELSE IF is_additive
            THEN ColorTexture([EmptyGraph EXCEPT
                                 !.shader = "ShaderNodeEmission",
                                 !.strength = Get(scalar_params, "EmissivePower", Rat(1))],
                              diffuse_path)
            ELSE Principled(diffuse_path, normal_path, spec_path, rough_path,
                            brightness_mult, roughness_value, spec_value,
                            use_normal_alpha_roughness)
        socket == IF is_additive THEN "Emission" ELSE "BSDF"
    \* shader_node.outputs[socket] raises KeyError when the node has no such socket
    IN IF socket \in OutputSockets[built.shader]
       THEN [built EXCEPT !.links = @ \cup {Link("Material Output.Surface", socket)}]
       ELSE [built EXCEPT !.raised = TRUE]

-----------------------------------------------------------------------------
(* The material importer: MaterialImporter.execute                         *)
(*                                                                         *)
(* The scene is [materials, objects]: the names of bpy.data.materials in   *)
(* order, and the objects of the scene (all of them in the collection the  *)
(* import works on), each [name, type, slots] with a slot holding a        *)
(* material name, or the empty name when it holds no material; an object   *)
(* has at most two slots.  Every                                           *)
(* material has a node tree with a Material Output node.  The asset        *)
(* directory is [walk, lines, props, image]: its os.walk, the lines of its *)
(* .mat files, what parse_props_file returns for its .props.txt files, and *)
(* the image its normal textures hold.                                     *)

NoMaterial == <<>>

InSeq(seq, x) == \E i \in 1..Len(seq) : seq[i] = x

\* material_to_slots[name]: the (object, slot) pairs that held the material
\* when execute started
material_to_slots(scene, name) ==
    { <<o, i>> \in (1..Len(scene.objects)) \X (1..2) :
        i <= Len(scene.objects[o].slots) /\ scene.objects[o].slots[i] = name }

\* obj.material_slots[slot_idx].material = replacement, for each pair
Repoint(objects, pairs, replacement) ==
    [ o \in 1..Len(objects) |->
        [objects[o] EXCEPT !.slots =
            [ i \in 1..Len(objects[o].slots) |->
                IF <<o, i>> \in pairs THEN replacement ELSE objects[o].slots[i] ]] ]

\* bpy.data.materials.remove(mat, do_unlink=True) for each of the materials
RemoveMaterials(scene, removed) ==
    [ materials |-> SelectSeq(scene.materials, LAMBDA m : ~InSeq(removed, m)),
      objects   |-> [ o \in 1..Len(scene.objects) |->
                        [scene.objects[o] EXCEPT !.slots =
                            [ i \in 1..Len(scene.objects[o].slots) |->
                                IF InSeq(removed, scene.objects[o].slots[i])
                                THEN NoMaterial ELSE scene.objects[o].slots[i] ]] ] ]

\* file_index.get(name + ext) if name else None
Lookup(file_index, name, ext) ==
    IF name = <<>> THEN None ELSE Get(file_index, Concat(name, ext), None)

\* the roughness priority logic of execute: what is handed to
\* _setup_material_nodes as normal_path, rough_path and
\* use_normal_alpha_roughness
RoughnessPriority(file_index, props_data, normal_texture_path, rough_texture_path, image) ==
    LET texture_params == IF IsNone(props_data) THEN EmptyDict
                          ELSE Get(props_data, "texture_params", EmptyDict)
        \* priority 1
        props_rough_path == IF "RoughnessMap" \in DOMAIN texture_params
                            THEN Get(file_index,
                                     Concat(texture_params["RoughnessMap"], <<".", "t", "g", "a">>), None)
                            ELSE None
        rough1 == IF ~IsNone(props_rough_path) THEN props_rough_path ELSE rough_texture_path
        \* priority 2
        declared == "NormalMap+Roughness" \in DOMAIN texture_params
        props_normal_path == IF declared
                             THEN Lookup(file_index, texture_params["NormalMap+Roughness"],
                                         <<".", "t", "g", "a">>)
                             ELSE None
        check_normal_path == IF ~IsNone(props_normal_path) THEN props_normal_path
                             ELSE normal_texture_path
        use_alpha == declared /\ ~IsNone(check_normal_path) /\ has_alpha_variation(image)
        rough2 == IF use_alpha THEN None ELSE rough1
    IN [ normal_path |-> IF use_alpha /\ ~IsNone(props_normal_path)
                         THEN props_normal_path ELSE normal_texture_path,
         \* `rough_texture_path = None` after the priorities, whatever they chose
         rough_path  |-> None,
         chosen_rough_path |-> rough2,
         use_normal_alpha_roughness |-> use_alpha ]

\* material.blend_method as set from props_data; "" when it is left alone
BlendMethod(props_data) ==
    IF IsNone(props_data) THEN ""
    ELSE LET blend_mode == Get(props_data, "blend_mode", 0)
         IN CASE blend_mode = 0 -> "OPAQUE"
              [] blend_mode = 1 -> "CLIP"
              [] blend_mode = 2 -> "BLEND"
              [] blend_mode = 3 -> "BLEND"
              [] OTHER -> ""

\* the body of `for material in materials` for a material that is neither a
\* WorldGridMaterial nor a duplicate: None when the loop continues before
\* _setup_material_nodes
ImportMaterial(name, file_index, assets) ==
    LET found_file  == Get(file_index, Concat(name, <<".", "m", "a", "t">>), None)
        found_props == Get(file_index, Concat(name, <<".", "p", "r", "o", "p", "s", ".", "t", "x", "t">>), None)
        props_data  == IF IsNone(found_props) THEN None ELSE assets.props
        names       == parse_mat(assets.lines)
    IN IF IsNone(found_file) THEN None
       ELSE IF names.diffuse = <<>> /\ names.normal = <<>> THEN None
       ELSE LET diffuse_texture_path == Lookup(file_index, names.diffuse, <<".", "t", "g", "a">>)
                normal_texture_path  == Lookup(file_index, names.normal, <<".", "t", "g", "a">>)
                spec_texture_path    == Lookup(file_index, names.spec, <<".", "t", "g", "a">>)
                rough_texture_path   == Lookup(file_index, names.rough, <<".", "t", "g", "a">>)
                pr == RoughnessPriority(file_index, props_data, normal_texture_path,
                                        rough_texture_path, assets.image)
            IN [ names |-> names,
                 blend_method |-> BlendMethod(props_data),
                 diffuse_path |-> diffuse_texture_path,
                 normal_path  |-> pr.normal_path,
                 spec_path    |-> spec_texture_path,
                 rough_path   |-> pr.rough_path,
                 use_normal_alpha_roughness |-> pr.use_normal_alpha_roughness,
                 graph |-> _setup_material_nodes(name, diffuse_texture_path, pr.normal_path,
                                                 spec_texture_path, pr.rough_path, props_data,
                                                 pr.use_normal_alpha_roughness) ]

\* the loop `for material in materials`, over the snapshot list(bpy.data.materials);
\* acc is [objects, materials_to_remove, imported, raised]
RECURSIVE MaterialLoop(_, _, _, _, _)
MaterialLoop(acc, materials, scene, file_index, assets) ==
    IF Len(materials) = 0 \/ acc.raised THEN acc
    ELSE LET name == Head(materials)
             split_matname == Split(name, ".")
             step ==
               IF Contains(name, <<"W", "o", "r", "l", "d", "G", "r", "i", "d", "M", "a", "t", "e", "r", "i", "a", "l">>)
               THEN [acc EXCEPT !.materials_to_remove = Append(@, name)]
               ELSE IF Len(split_matname) > 1
               THEN LET base_name == split_matname[1]
                    IN IF InSeq(scene.materials, base_name) /\ base_name # name
                       THEN [acc EXCEPT !.objects = Repoint(@, material_to_slots(scene, name),
                                                            base_name),
                                        !.materials_to_remove = Append(@, name)]
                       ELSE acc
               ELSE With(ImportMaterial(name, file_index, assets), LAMBDA imported :
                         IF IsNone(imported) THEN acc
                         ELSE [acc EXCEPT !.imported = (name :> imported) @@ @,
                                          !.raised = imported.graph.raised])
         IN With(step, LAMBDA next :
                   MaterialLoop(next, Tail(materials), scene, file_index, assets))

\* mesh objects left with no material in their first slot are removed
WithoutMaterial(obj) ==
    obj.type = "MESH" /\ (Len(obj.slots) = 0 \/ obj.slots[1] = NoMaterial)

\* MaterialImporter.execute
execute(scene, collection_exists, assets) ==
    IF ~collection_exists
    THEN [ret |-> "CANCELLED", scene |-> scene, imported |-> EmptyDict]
    ELSE With(build_file_index(assets.walk, { <<".", "m", "a", "t">>, <<".", "t", "g", "a">>, <<".", "p", "r", "o", "p", "s", ".", "t", "x", "t">> }),
              LAMBDA file_index :
         With(MaterialLoop([ objects |-> scene.objects, materials_to_remove |-> <<>>,
                             imported |-> EmptyDict, raised |-> FALSE ],
                           scene.materials, scene, file_index, assets),
              LAMBDA acc :
         LET repointed == [scene EXCEPT !.objects = acc.objects]
             deduped   == RemoveMaterials(repointed, acc.materials_to_remove)
         IN IF acc.raised
            THEN [ret |-> "raise", scene |-> repointed, imported |-> acc.imported]
            ELSE [ ret |-> "FINISHED",
                   scene |-> [deduped EXCEPT !.objects =
                                SelectSeq(@, LAMBDA obj : ~WithoutMaterial(obj))],
                   imported |-> acc.imported ]))

-----------------------------------------------------------------------------
(* The material importer of src/main.py                                    *)

\* search_directory(root_dir, file_name): the first file of that name in walk
\* order, or None
RECURSIVE search_directory(_, _)
search_directory(walk, file_name) ==
    IF Len(walk) = 0 THEN None
    ELSE IF InSeq(Head(walk).files, file_name) THEN Join(Head(walk).subdir, file_name)
    ELSE search_directory(Tail(walk), file_name)

main_Search(walk, name, ext) ==
    IF name = <<>> THEN None ELSE search_directory(walk, Concat(name, ext))

\* the rest of the loop body of src/main.py for a material that is neither a
\* WorldGridMaterial nor a duplicate
main_ImportMaterial(name, assets) ==
    LET found_file == search_directory(assets.walk, Concat(name, <<".", "m", "a", "t">>))
        names      == main_parse_mat(assets.lines)
    IN IF IsNone(found_file) THEN None
       ELSE IF names.diffuse = <<>> /\ names.normal = <<>> THEN None
       ELSE LET diffuse_texture_path == main_Search(assets.walk, names.diffuse, <<".", "t", "g", "a">>)
                normal_texture_path  == main_Search(assets.walk, names.normal, <<".", "t", "g", "a">>)
                spec_texture_path    == main_Search(assets.walk, names.spec, <<".", "t", "g", "a">>)
                rough_texture_path   == main_Search(assets.walk, names.rough, <<".", "t", "g", "a">>)
                built == IF Contains(name, <<"D", "e", "c", "a", "l", "s">>)
                         THEN ColorTexture([EmptyGraph EXCEPT
                                              !.shader = "ShaderNodeBsdfTransparent"],
                                           diffuse_texture_path)
                         ELSE Principled(diffuse_texture_path, normal_texture_path,
                                         spec_texture_path, rough_texture_path,
                                         Rat(1), Unset, Unset, FALSE)
            IN [ names |-> names,
                 blend_method |-> "",
                 diffuse_path |-> diffuse_texture_path,
                 normal_path  |-> normal_texture_path,
                 spec_path    |-> spec_texture_path,
                 rough_path   |-> rough_texture_path,
                 use_normal_alpha_roughness |-> FALSE,
                 graph |-> [built EXCEPT !.links =
                              @ \cup {Link("Material Output.Surface", "BSDF")}] ]

\* dedup_materials(material_name_to_replace, replacement_material_name)
dedup_materials(scene, material_name_to_replace, replacement_material_name) ==
    IF ~InSeq(scene.materials, replacement_material_name) THEN scene
    ELSE [scene EXCEPT !.objects =
            Repoint(@, material_to_slots(scene, material_name_to_replace),
                    replacement_material_name)]

\* the loop `for material in materials` of src/main.py, which removes
\* materials from bpy.data.materials while it iterates over it: the host may
\* go on with the next material or fail at that point (hazard);
\* acc is [scene, imported, raised]
RECURSIVE main_MaterialLoop(_, _, _, _)
main_MaterialLoop(acc, materials, assets, hazard) ==
    IF Len(materials) = 0 \/ acc.raised THEN acc
    ELSE LET name == Head(materials)
             split_matname == Split(name, ".")
             step ==
               IF Contains(name, <<"W", "o", "r", "l", "d", "G", "r", "i", "d", "M", "a", "t", "e", "r", "i", "a", "l">>)
               THEN [acc EXCEPT !.scene = RemoveMaterials(@, <<name>>),
                                !.raised = hazard = "fail"]
               ELSE IF Len(split_matname) > 1
               THEN [acc EXCEPT
                       !.scene = RemoveMaterials(dedup_materials(@, name, split_matname[1]),
                                                 <<name>>),
                       !.raised = hazard = "fail"]
               ELSE With(main_ImportMaterial(name, assets), LAMBDA imported :
                         IF IsNone(imported) THEN acc
                         ELSE [acc EXCEPT !.imported = (name :> imported) @@ @])
         IN With(step, LAMBDA next :
                   main_MaterialLoop(next, Tail(materials), assets, hazard))

\* src/main.py: objects whose first slot holds no material are removed
main_WithoutMaterial(obj) == Len(obj.slots) > 0 /\ obj.slots[1] = NoMaterial

\* src/main.py: MaterialImporter.execute
main_execute(scene, collection_exists, assets, hazard) ==
    IF ~collection_exists
    THEN [ret |-> "raise", scene |-> scene, imported |-> EmptyDict]
    ELSE With(main_MaterialLoop([scene |-> scene, imported |-> EmptyDict,
                                 raised |-> FALSE],
                                scene.materials, assets, hazard),
              LAMBDA acc :
         LET objects == acc.scene.objects
             kept == SelectSeq(objects, LAMBDA obj : ~main_WithoutMaterial(obj))
             \* the first object removed while iterating over the collection
             first == CHOOSE o \in 1..Len(objects) :
                        /\ main_WithoutMaterial(objects[o])
                        /\ \A q \in 1..(o - 1) : ~main_WithoutMaterial(objects[q])
         IN IF acc.raised
            THEN [ret |-> "raise", scene |-> acc.scene, imported |-> acc.imported]
            ELSE IF Len(kept) < Len(objects) /\ hazard = "fail"
            THEN [ret |-> "raise", scene |-> [acc.scene EXCEPT !.objects = RemoveAt(@, first)],
                  imported |-> acc.imported]
            ELSE [ ret |-> "FINISHED", scene |-> [acc.scene EXCEPT !.objects = kept],
                   imported |-> acc.imported ])

-----------------------------------------------------------------------------
(* MatSpec: one run of the material importer, of either source file, over  *)
(* a scene and an asset directory drawn from the shapes below.             *)

Object(name, type, slots) == [name |-> name, type |-> type, slots |-> slots]

Scenes ==
    { [ materials |-> << <<"W">> >>,
        objects   |-> << Object("o1", "MESH", << <<"W">> >>) >> ],
      [ materials |-> << <<"W">>, <<"W", ".", "0", "0", "1">> >>,
        objects   |-> << Object("o1", "MESH", << <<"W">> >>),
                         Object("o2", "MESH", << <<"W", ".", "0", "0", "1">>, <<"W">> >>) >> ],
      [ materials |-> << <<"W">>, <<"W", ".", "0", "0", "1">>, <<"W", ".", "0", "0", "2">> >>,
        objects   |-> << Object("o1", "MESH", << <<"W", ".", "0", "0", "2">> >>),
                         Object("o2", "MESH", << <<"W", ".", "0", "0", "1">> >>) >> ],
      [ materials |-> << <<"X", ".", "0", "0", "1">> >>,
        objects   |-> << Object("o1", "MESH", << <<"X", ".", "0", "0", "1">> >>) >> ],
      [ materials |-> << <<"W">>, <<"X", ".", "0", "0", "1">> >>,
        objects   |-> << Object("o1", "MESH", << <<"W">>, <<"X", ".", "0", "0", "1">> >>) >> ],
      [ materials |-> << <<"D", "e", "c", "a", "l", "s", "_", "A">> >>,
        objects   |-> << Object("o1", "MESH", << <<"D", "e", "c", "a", "l", "s", "_", "A">> >>) >> ],
      [ materials |-> << <<"W">>, <<"W", "o", "r", "l", "d", "G", "r", "i", "d", "M", "a", "t", "e", "r", "i", "a", "l">> >>,
        objects   |-> << Object("o1", "MESH", << <<"W">> >>),
                         Object("o2", "MESH", << <<"W", "o", "r", "l", "d", "G", "r", "i", "d", "M", "a", "t", "e", "r", "i", "a", "l">> >>) >> ],
      [ materials |-> << <<"W">> >>,
        objects   |-> << Object("o1", "MESH", <<>>),
                         Object("o2", "LIGHT", <<>>),
                         Object("o3", "MESH", << <<"W">> >>),
                         Object("o4", "CURVE", << NoMaterial >>) >> ] }

\* the texture names the .mat and .props.txt files below refer to
TextureNames == { <<"W", "_", "D">>, <<"W", "_", "N">>, <<"W", "_", "S">>, <<"W", "_", "R">>, <<"B", "_", "R">>, <<"P", "_", "R">>, <<"P", "_", "N">> }

\* the sets of textures that have a .tga file in the tree
TextureSets ==
    { TextureNames,
      TextureNames \ { <<"P", "_", "R">> },
      TextureNames \ { <<"P", "_", "N">> },
      TextureNames \ { <<"W", "_", "R">>, <<"B", "_", "R">> },
      TextureNames \ { <<"W", "_", "N">>, <<"P", "_", "N">> },
      { <<"W", "_", "D">> },
      {} }

\* a set of names as a file list, in a fixed order
RECURSIVE FileList(_, _)
FileList(names, ext) ==
    IF names = {} THEN <<>>
    ELSE LET name == CHOOSE n \in names : TRUE
         IN <<Concat(name, ext)>> \o FileList(names \ {name}, ext)

\* os.walk of the asset directory: the material files, the textures, and a
\* second copy of the diffuse texture in a later directory
AssetWalk(has_mat, has_props, textures) ==
    << [ subdir |-> "root/Materials",
         files  |-> (IF has_mat THEN << <<"W", ".", "m", "a", "t">>, <<"D", "e", "c", "a", "l", "s", "_", "A", ".", "m", "a", "t">> >> ELSE <<>>)
                    \o (IF has_props THEN << <<"W", ".", "p", "r", "o", "p", "s", ".", "t", "x", "t">>, <<"D", "e", "c", "a", "l", "s", "_", "A", ".", "p", "r", "o", "p", "s", ".", "t", "x", "t">> >>
                        ELSE <<>>) ],
       [ subdir |-> "root/Textures", files |-> FileList(textures, <<".", "t", "g", "a">>) ],
       [ subdir |-> "root/Textures/Old",
         files  |-> FileList(textures \cap { <<"W", "_", "D">> }, <<".", "t", "g", "a">>) ] >>

\* the lines of the .mat files
MatFiles ==
    { << <<"D", "i", "f", "f", "u", "s", "e", "=", "W", "_", "D", "\n">>, <<"N", "o", "r", "m", "a", "l", "=", "W", "_", "N", "\n">> >>,
      << <<"D", "i", "f", "f", "u", "s", "e", "=", "W", "_", "D", "\n">>, <<"N", "o", "r", "m", "a", "l", "=", "W", "_", "N", "\n">>, <<"O", "t", "h", "e", "r", "[", "0", "]", "=", "B", "_", "R", "\n">> >>,
      << <<"D", "i", "f", "f", "u", "s", "e", "=", "W", "_", "D", "\n">>, <<"O", "t", "h", "e", "r", "[", "0", "]", "=", "B", "_", "R">> >>,
      << <<"O", "t", "h", "e", "r", "[", "0", "]", "=", "B", "_", "R", "\n">>, <<"D", "i", "f", "f", "u", "s", "e", "=", "W", "_", "D", "\n">> >>,
      << <<"D", "i", "f", "f", "u", "s", "e", "=", "W", "_", "D", "\n">>, <<"O", "t", "h", "e", "r", "[", "0", "]", "=", "W", "_", "M", "\n">> >>,
      << <<"D", "i", "f", "f", "u", "s", "e", "=", "W", "_", "D", "\n">>, <<"O", "t", "h", "e", "r", "[", "1", "]", "=", "B", "_", "R", "\n">>, <<"S", "p", "e", "c", "P", "o", "w", "e", "r", "=", "W", "_", "S", "\n">> >>,
      << <<"N", "o", "r", "m", "a", "l", "=", "W", "_", "N", "\n">> >>,
      << <<"C", "o", "m", "m", "e", "n", "t", "\n">>, <<"D", "i", "f", "f", "u", "s", "e", "\n">> >> }

\* what parse_props_file returns for the .props.txt files of the tree; 0
\* stands for a tree without .props.txt files
PropsShapes == 0..8

ParsedProps(blend_mode, two_sided, scalar_params, texture_params) ==
    [ blend_mode |-> blend_mode, two_sided |-> two_sided, opacity_clip |-> <<1, 2>>,
      scalar_params |-> scalar_params, vector_params |-> EmptyDict,
      texture_params |-> texture_params ]

PropsData(b) ==
    CASE b = 1 -> ParsedProps(0, FALSE, EmptyDict, EmptyDict)
      [] b = 2 -> ParsedProps(3, FALSE, [EmissivePower |-> <<5, 2>>], EmptyDict)
      [] b = 3 -> ParsedProps(3, FALSE, EmptyDict, EmptyDict)
      [] b = 4 -> ParsedProps(0, FALSE, EmptyDict, [RoughnessMap |-> <<"P", "_", "R">>])
      [] b = 5 -> ParsedProps(0, FALSE, EmptyDict, "NormalMap+Roughness" :> <<"P", "_", "N">>)
      [] b = 6 -> ParsedProps(0, FALSE, EmptyDict,
                              [RoughnessMap |-> <<"P", "_", "R">>] @@ ("NormalMap+Roughness" :> <<"P", "_", "N">>))
      [] b = 7 -> ParsedProps(1, TRUE, [Roughness |-> <<2, 5>>, BrightnessMult |-> <<3, 2>>],
                              EmptyDict)
      [] b = 8 -> ParsedProps(2, FALSE, EmptyDict, "NormalMap+Roughness" :> <<"P", "_", "X">>)

\* the image of the normal textures: alpha range 0.5, 0, exactly 0.1, and a
\* file the host cannot load
Images ==
    { [readable |-> TRUE,  alpha |-> <<100, 50, 100>>],
      [readable |-> TRUE,  alpha |-> <<100, 100>>],
      [readable |-> TRUE,  alpha |-> <<90, 100>>],
      [readable |-> FALSE, alpha |-> <<>>] }

DeclaresNormalAlpha(b) == b \in {5, 6, 8}

MatInit ==
    /\ OrchIdle
    /\ \E scene \in Scenes, collection_exists \in BOOLEAN, has_mat \in BOOLEAN,
          textures \in TextureSets, lines \in MatFiles, b \in PropsShapes, image \in Images :
         /\ ~DeclaresNormalAlpha(b) => image.alpha = <<100, 100>>
         /\ Len(scene.materials) > 1 =>
              (textures = TextureNames /\ lines = << <<"D", "i", "f", "f", "u", "s", "e", "=", "W", "_", "D", "\n">>, <<"N", "o", "r", "m", "a", "l", "=", "W", "_", "N", "\n">> >>
               /\ has_mat /\ b = 0)
         /\ ~collection_exists => (Len(scene.materials) = 1 /\ textures = {} /\ b = 0)
         /\ ~has_mat => (textures = {} /\ b = 0)
         /\ probe = [ stage  |-> "assets",
                      scene  |-> scene,
                      collection_exists |-> collection_exists,
                      assets |-> [ walk  |-> AssetWalk(has_mat, b # 0, textures),
                                   lines |-> lines,
                                   props |-> IF b = 0 THEN None ELSE PropsData(b),
                                   image |-> image ],
                      version |-> "",
                      res |-> [ret |-> "", scene |-> scene, imported |-> EmptyDict] ]

\* bpy.ops.lis.mat_import() of src/src/LiSR_mapimporter.py
MatExecute ==
    /\ probe.stage = "assets"
    /\ probe' = [probe EXCEPT !.stage = "imported", !.version = "LiSR_mapimporter",
                              !.res = execute(probe.scene, probe.collection_exists,
                                              probe.assets)]
    /\ UNCHANGED orch_vars

\* bpy.ops.lis.mat_import() of src/main.py, which reads no .props.txt file
MainMatExecute ==
    /\ probe.stage = "assets"
    /\ IsNone(probe.assets.props)
    /\ \E hazard \in {"go on", "fail"} :
         probe' = [probe EXCEPT !.stage = "imported", !.version = "main",
                                !.res = main_execute(probe.scene, probe.collection_exists,
                                                     probe.assets, hazard)]
    /\ UNCHANGED orch_vars

MatNext == MatExecute \/ MainMatExecute

MatSpec == MatInit /\ [][MatNext]_vars


-----------------------------------------------------------------------------
(* Claims on the material importer                                         *)

\* the material the asset tree describes, when the run imported it
Imported(name) ==
    /\ probe.stage = "imported"
    /\ name \in DOMAIN probe.res.imported

\* the values of the Other[ lines of a .mat file that end with the literal R
RECURSIVE OtherValuesR(_)
OtherValuesR(lines) ==
    IF Len(lines) = 0 THEN {}
    ELSE LET line      == Head(lines)
             splitline == Split(line, "=")
         IN (IF /\ StartsWith(line, <<"O", "t", "h", "e", "r", "[">>)
                /\ Len(splitline) > 1
                /\ EndsWith(Strip(splitline[2]), <<"R">>)
             THEN { Strip(splitline[2]) } ELSE {})
            \cup OtherValuesR(Tail(lines))

\* C15: the roughness name read from a .mat file with a diffuse name is the
\* value of an Other[ line that ends with R when the file has one, and
\* otherwise the diffuse name with its last character dropped and R appended.
C15_RoughnessNameRule ==
    (Imported(<<"W">>) /\ probe.res.imported[<<"W">>].names.diffuse # <<>>) =>
        LET names == probe.res.imported[<<"W">>].names
        IN IF OtherValuesR(probe.assets.lines) # {}
           THEN names.rough \in OtherValuesR(probe.assets.lines)
           ELSE names.rough = Concat(DropLast(names.diffuse), <<"R">>)


\* the material names of the form Foo.NNN in the scene before the import, and
\* the name Foo of each
IsDuplicateName(name) == Len(Split(name, ".")) > 1

BaseName(name) == Split(name, ".")[1]

\* the objects of a scene that carry a given object name
ObjectsNamed(scene, object_name) ==
    { o \in 1..Len(scene.objects) : scene.objects[o].name = object_name }

\* every slot of the scene before the import that referenced `name` belongs
\* to an object that is still in the scene and references `now` there
SlotsNowReference(name, now) ==
    \A o \in 1..Len(probe.scene.objects) :
      \A i \in 1..Len(probe.scene.objects[o].slots) :
        probe.scene.objects[o].slots[i] = name =>
          \E q \in ObjectsNamed(probe.res.scene, probe.scene.objects[o].name) :
            probe.res.scene.objects[q].slots[i] = now

\* C17: after the material import, a material Foo.NNN whose Foo exists is
\* removed and every slot that referenced it references Foo; a material
\* Foo.NNN whose Foo does not exist is kept and its slots are unchanged.
C17_DuplicateNameMaterials ==
    (probe.stage = "imported" /\ probe.res.ret = "FINISHED") =>
        \A m \in 1..Len(probe.scene.materials) :
          LET name == probe.scene.materials[m]
          IN IsDuplicateName(name) =>
               IF InSeq(probe.scene.materials, BaseName(name))
               THEN /\ ~InSeq(probe.res.scene.materials, name)
                    /\ SlotsNowReference(name, BaseName(name))
               ELSE /\ InSeq(probe.res.scene.materials, name)
                    /\ SlotsNowReference(name, name)


\* the run of src/src/LiSR_mapimporter.py imported material W with the
\* principled topology
PrincipledW ==
    /\ Imported(<<"W">>)
    /\ probe.version = "LiSR_mapimporter"
    /\ probe.res.imported[<<"W">>].graph.shader = "ShaderNodeBsdfPrincipled"

\* a texture name has a .tga file somewhere in the asset tree
Resolves(name) ==
    /\ name # <<>>
    /\ \E d \in 1..Len(probe.assets.walk) :
         InSeq(probe.assets.walk[d].files, Concat(name, <<".", "t", "g", "a">>))

\* the texture parameters of the material's .props.txt file, if it has one
TextureParams ==
    IF IsNone(probe.assets.props) THEN EmptyDict
    ELSE Get(probe.assets.props, "texture_params", EmptyDict)

\* source 1: a RoughnessMap texture is declared and resolves to a file
RoughnessMapAvailable ==
    /\ "RoughnessMap" \in DOMAIN TextureParams
    /\ Resolves(TextureParams["RoughnessMap"])

\* the alpha values of the normal image span more than 0.1
AlphaRangeAbove01 ==
    /\ probe.assets.image.readable
    /\ \E i, j \in 1..Len(probe.assets.image.alpha) :
         probe.assets.image.alpha[i] - probe.assets.image.alpha[j] > 10

\* a normal map has a file: the one NormalMap+Roughness names, or the one the
\* .mat file names
NormalMapResolves ==
    \/ Resolves(TextureParams["NormalMap+Roughness"])
    \/ Resolves(probe.res.imported[<<"W">>].names.normal)

\* source 2: NormalMap+Roughness is declared and the alpha of the normal image
\* varies
NormalAlphaAvailable ==
    /\ "NormalMap+Roughness" \in DOMAIN TextureParams
    /\ NormalMapResolves
    /\ AlphaRangeAbove01

\* source 3: the roughness texture named by the .mat file resolves
MatRoughnessAvailable == Resolves(probe.res.imported[<<"W">>].names.rough)

RoughnessFromTexture ==
    Link("shader.Roughness", "rough_texture.Color") \in probe.res.imported[<<"W">>].graph.links

RoughnessFromNormalAlpha ==
    Link("shader.Roughness", "normal_texture.Alpha") \in probe.res.imported[<<"W">>].graph.links

\* C12: the Roughness input of the principled shader is driven by the
\* RoughnessMap texture when it is available, otherwise by the alpha of the
\* normal map when NormalMap+Roughness is declared and the alpha varies,
\* otherwise by the roughness texture of the .mat file when it resolves.
C12_RoughnessPriority ==
    PrincipledW =>
        IF RoughnessMapAvailable
        THEN RoughnessFromTexture /\ ~RoughnessFromNormalAlpha
        ELSE IF NormalAlphaAvailable
        THEN RoughnessFromNormalAlpha /\ ~RoughnessFromTexture
        ELSE MatRoughnessAvailable => RoughnessFromTexture

\* C13: when NormalMap+Roughness is declared (and no RoughnessMap) but the
\* alpha of the normal image spans at most 0.1 or the image cannot be read,
\* the normal alpha does not drive Roughness, and the roughness texture of the
\* .mat file does when its file resolves.
C13_NormalAlphaGating ==
    ( /\ PrincipledW
      /\ "NormalMap+Roughness" \in DOMAIN TextureParams
      /\ "RoughnessMap" \notin DOMAIN TextureParams
      /\ ~AlphaRangeAbove01 ) =>
        /\ ~RoughnessFromNormalAlpha
        /\ MatRoughnessAvailable => RoughnessFromTexture


\* the blend mode the material's .props.txt file gives, 0 without such a file
BlendModeOf(name) ==
    IF IsNone(probe.assets.props) THEN 0 ELSE Get(probe.assets.props, "blend_mode", 0)

\* the topology the name and the blend mode call for
TopologyFor(name) ==
    IF Contains(name, <<"D", "e", "c", "a", "l", "s">>) THEN "ShaderNodeBsdfTransparent"
    ELSE IF BlendModeOf(name) = 3 THEN "ShaderNodeEmission"
    ELSE "ShaderNodeBsdfPrincipled"

\* the EmissivePower scalar of the .props.txt file, 1.0 when absent
EmissivePowerOf(name) ==
    IF IsNone(probe.assets.props) THEN Rat(1)
    ELSE Get(Get(probe.assets.props, "scalar_params", EmptyDict), "EmissivePower", Rat(1))

\* a graph with its shader wired to the Material Output and nothing but a
\* diffuse texture beside it
ColorOnly(graph) ==
    /\ graph.nodes \subseteq {"diffuse_texture"}
    /\ graph.links \subseteq { Link("shader.Color", "diffuse_texture.Color"),
                               Link("Material Output.Surface", "BSDF"),
                               Link("Material Output.Surface", "Emission") }

\* the topology was built to the end: the call returned with the shader
\* linked to the Material Output
BuiltToTheEnd(graph) ==
    /\ ~graph.raised
    /\ \E socket \in {"BSDF", "Emission"} :
         Link("Material Output.Surface", socket) \in graph.links

\* C14: for every material handed to _setup_material_nodes the call builds the
\* transparent-decal topology when the name contains 'Decals', else the
\* emissive-additive one when blend_mode is 3, else the principled one; the
\* decal and additive topologies hold no normal, specular or roughness node or
\* link, and the additive emission strength is EmissivePower, 1.0 when absent.
C14_ShadingTopology ==
    (probe.stage = "imported" /\ probe.version = "LiSR_mapimporter") =>
        \A name \in DOMAIN probe.res.imported :
          LET graph == probe.res.imported[name].graph
          IN /\ BuiltToTheEnd(graph)
             /\ graph.shader = TopologyFor(name)
             /\ graph.shader # "ShaderNodeBsdfPrincipled" => ColorOnly(graph)
             /\ graph.shader = "ShaderNodeEmission" =>
                  RatEq(graph.strength, EmissivePowerOf(name))


-----------------------------------------------------------------------------
(* SkeletalMesh._extract_anim_references                                   *)
(*                                                                         *)
(* A JSON value that is searched is tagged with its Python type: a dict    *)
(* holds its (key, value) items in insertion order, a list its items, a    *)
(* string its characters.                                                  *)

JDict(items) == [t |-> "dict", items |-> items]

JList(items) == [t |-> "list", items |-> items]

JStr(s) == [t |-> "str", s |-> s]

Item(k, v) == [k |-> k, v |-> v]

\* obj.get(key, "") on a tagged dict whose value for the key is a string
JGetStr(obj, key) ==
    LET at == { i \in 1..Len(obj.items) : obj.items[i].k = key }
    IN IF at = {} THEN <<>>
       ELSE LET v == obj.items[CHOOSE i \in at : TRUE].v
            IN IF v.t = "str" THEN v.s ELSE <<>>

\* re.search(r"AnimSequence'([^']+)'", s): group 1 of the leftmost match, or
\* the empty string when there is no match
SearchAnimName(s) ==
    LET tag    == <<"A", "n", "i", "m", "S", "e", "q", "u", "e", "n", "c", "e", "'">>
        k      == Len(tag)
        closes(i) == { j \in (i + k + 1)..Len(s) : s[j] = "'" }
        starts == { i \in 1..(Len(s) - k - 1) :
                      /\ SubSeq(s, i, i + k - 1) = tag
                      /\ s[i + k] # "'"
                      /\ closes(i) # {} }
    IN IF starts = {} THEN <<>>
       ELSE LET i == CHOOSE a \in starts : \A b \in starts : a <= b
                j == CHOOSE a \in closes(i) : \A b \in closes(i) : a <= b
            IN SubSeq(s, i + k, j - 1)

\* extract_anim_name(obj): the names appended to self.anim_sequences, in
\* order; extract_each is its loop over the values of a dict or the items of
\* a list
RECURSIVE extract_anim_name(_)
RECURSIVE extract_each(_)
extract_each(values) ==
    IF Len(values) = 0 THEN <<>>
    ELSE extract_anim_name(Head(values)) \o extract_each(Tail(values))

extract_anim_name(obj) ==
    IF obj.t = "dict"
    THEN LET name == SearchAnimName(JGetStr(obj, "ObjectName"))
         IN (IF name # <<>> THEN <<name>> ELSE <<>>)
            \o extract_each([i \in 1..Len(obj.items) |-> obj.items[i].v])
    ELSE IF obj.t = "list" THEN extract_each(obj.items)
    ELSE <<>>

\* SkeletalMesh.anim_sequences after __init__: the references are extracted
\* only once every validity check has passed
_extract_anim_references(json_entity, scale_factor, props) ==
    IF SkeletalMesh(json_entity, scale_factor).invalid THEN <<>>
    ELSE extract_anim_name(props)

-----------------------------------------------------------------------------
(* AnimRefSpec: SkeletalMesh.__init__ on one entity whose Properties hold  *)
(* up to three values, each a reference or not, at one of three depths.    *)

AnimRef(object_name, object_path) ==
    JDict(<< Item("ObjectName", JStr(object_name)), Item("ObjectPath", JStr(object_path)) >>)

\* a value found in the Properties; 0 stands for no value
RefShapes == 0..6

RefValue(v) ==
    CASE v = 1 -> AnimRef(<<"A", "n", "i", "m", "S", "e", "q", "u", "e", "n", "c", "e", "'", "A", "_", "I", "d", "l", "e", "'">>, <<"/", "G", "a", "m", "e", "/", "A", "n", "i", "m", "/", "A", "_", "I", "d", "l", "e", ".", "0">>)
      [] v = 2 -> AnimRef(<<"A", "n", "i", "m", "S", "e", "q", "u", "e", "n", "c", "e", "'", "A", "_", "W", "a", "l", "k", "'">>, <<"/", "G", "a", "m", "e", "/", "A", "n", "i", "m", "/", "A", "_", "W", "a", "l", "k", ".", "0">>)
      [] v = 3 -> AnimRef(<<"A", "n", "i", "m", "S", "e", "q", "u", "e", "n", "c", "e", "'", "A", "_", "I", "d", "l", "e", "'">>, <<"/", "G", "a", "m", "e", "/", "O", "l", "d", "/", "A", "_", "I", "d", "l", "e", ".", "0">>)
      [] v = 4 -> AnimRef(<<"S", "k", "e", "l", "e", "t", "a", "l", "M", "e", "s", "h", "'", "H", "a", "y", "d", "e", "n", "'">>, <<"/", "G", "a", "m", "e", "/", "M", "e", "s", "h", "/", "H", "a", "y", "d", "e", "n", ".", "0">>)
      [] v = 5 -> AnimRef(<<"A", "n", "i", "m", "S", "e", "q", "u", "e", "n", "c", "e", "'", "'">>, <<"/", "G", "a", "m", "e", "/", "A", "n", "i", "m", "/", "N", "o", "n", "e", ".", "0">>)
      [] v = 6 -> JStr(<<"A", "n", "i", "m", "S", "e", "q", "u", "e", "n", "c", "e", "'", "A", "_", "R", "u", "n", "'">>)

\* the values that are present, in order
RECURSIVE RefValues(_)
RefValues(slots) ==
    IF Len(slots) = 0 THEN <<>>
    ELSE (IF Head(slots) = 0 THEN <<>> ELSE <<RefValue(Head(slots))>>)
         \o RefValues(Tail(slots))

\* the Properties that hold the values: as keys of the mapping itself, in a
\* list under a key, or each in a mapping of a list two mappings down
NestedProps(nest, slots) ==
    LET values == RefValues(slots)
    IN CASE nest = 1 -> JDict([i \in 1..Len(values) |->
                                   Item(<<"AnimIdle", "AnimWalk", "AnimRun">>[i], values[i])])
         [] nest = 2 -> JDict(<< Item("Animations", JList(values)) >>)
         [] nest = 3 -> JDict(<< Item("AnimTree",
                            JDict(<< Item("Tracks",
                               JList([i \in 1..Len(values) |->
                                        JDict(<< Item("AnimSeq", values[i]) >>)])) >>)) >>)

AnimRefInit ==
    /\ OrchIdle
    /\ \E m \in {0, 4, 6}, l \in {0, 2, 4}, nest \in 1..3,
          slots \in RefShapes \X RefShapes \X RefShapes :
         probe = [ stage  |-> "props",
                   entity |-> Entity("SkeletalMeshComponent", "Comp_0", 1, m, l, 0, 0),
                   slots  |-> slots,
                   props  |-> NestedProps(nest, slots),
                   rec    |-> None,
                   anim_sequences |-> <<>> ]

\* skeletal_mesh = SkeletalMesh(entity, ...)
AnimRefBuild ==
    /\ probe.stage = "props"
    /\ probe' = [probe EXCEPT
                   !.stage = "built",
                   !.rec = SkeletalMesh(probe.entity, Rat(1)),
                   !.anim_sequences = _extract_anim_references(probe.entity, Rat(1),
                                                               probe.props)]
    /\ UNCHANGED orch_vars

AnimRefNext == AnimRefBuild

AnimRefSpec == AnimRefInit /\ [][AnimRefNext]_vars

\* the values of the Properties that are AnimSequence references
References ==
    { i \in 1..3 : probe.slots[i] \in {1, 2, 3} }

ReferenceName(i) == SearchAnimName(JGetStr(RefValue(probe.slots[i]), "ObjectName"))

ReferencePath(i) == JGetStr(RefValue(probe.slots[i]), "ObjectPath")

ValidSkeletal == probe.stage = "built" /\ ~probe.rec.invalid /\ ~probe.rec.raised

\* C21: anim_sequences of a valid SkeletalMesh record holds the name of every
\* AnimSequence reference of its Properties, at any depth, with one entry per
\* distinct ObjectPath.
C21_AnimSequencesDeduplicated ==
    ValidSkeletal =>
        /\ \A i \in References :
             \E k \in 1..Len(probe.anim_sequences) : probe.anim_sequences[k] = ReferenceName(i)
        /\ Len(probe.anim_sequences) = Cardinality({ ReferencePath(i) : i \in References })


-----------------------------------------------------------------------------
(* parse_props_file                                                        *)
(*                                                                         *)
(* A .props.txt file is [readable, fields]: whether open/read succeeds,    *)
(* and the places of its content that one of the patterns matches, in      *)
(* order.  A field is [kind, name, texts]: the pattern that matches it,    *)
(* the parameter name it captures, and the captured texts that are         *)
(* converted.  The character classes of the patterns bound the texts:      *)
(* (\d+) for BlendMode, ([\d.]+) for OpacityMaskClipValue, ([-\d.]+) for   *)
(* scalar and vector values.                                               *)

Digits == {"0", "1", "2", "3", "4", "5", "6", "7", "8", "9"}

DigitValue(c) ==
    CASE c = "0" -> 0 [] c = "1" -> 1 [] c = "2" -> 2 [] c = "3" -> 3 [] c = "4" -> 4
      [] c = "5" -> 5 [] c = "6" -> 6 [] c = "7" -> 7 [] c = "8" -> 8 [] c = "9" -> 9

\* int(text) for a text of digits
RECURSIVE IntOf(_)
IntOf(text) ==
    IF Len(text) = 0 THEN 0
    ELSE IntOf(SubSeq(text, 1, Len(text) - 1)) * 10 + DigitValue(text[Len(text)])

RECURSIVE Pow10(_)
Pow10(n) == IF n = 0 THEN 1 ELSE 10 * Pow10(n - 1)

\* float(text) succeeds, for a text over digits, '.' and '-': an optional
\* leading sign, at most one point, at least one digit
FloatParses(text) ==
    LET body == IF Len(text) > 0 /\ text[1] = "-" THEN Tail(text) ELSE text
    IN /\ \A i \in 1..Len(body) : body[i] # "-"
       /\ Cardinality({ i \in 1..Len(body) : body[i] = "." }) <= 1
       /\ \E i \in 1..Len(body) : body[i] \in Digits

\* float(text) as an exact rational, for a text that parses
FloatOf(text) ==
    LET negative == text[1] = "-"
        body     == IF negative THEN Tail(text) ELSE text
        points   == { i \in 1..Len(body) : body[i] = "." }
        decimals == IF points = {} THEN 0 ELSE Len(body) - (CHOOSE i \in points : TRUE)
        digits   == SelectSeq(body, LAMBDA c : c \in Digits)
    IN << (IF negative THEN -1 ELSE 1) * IntOf(digits), Pow10(decimals) >>

\* the dict parse_props_file starts from: it has no 'texture_params' key yet
PropsDefaults ==
    [ blend_mode |-> 0, two_sided |-> FALSE, opacity_clip |-> <<1, 2>>,
      scalar_params |-> EmptyDict, vector_params |-> EmptyDict ]

\* the first field of a kind: re.search; 0 when there is none
FirstField(fields, kind) ==
    LET at == { i \in 1..Len(fields) : fields[i].kind = kind }
    IN IF at = {} THEN 0 ELSE CHOOSE i \in at : \A j \in at : i <= j

\* for match in scalar_pattern.finditer(content): a value that is no number
\* is passed over
RECURSIVE ScalarParams(_, _)
ScalarParams(fields, params) ==
    IF Len(fields) = 0 THEN params
    ELSE LET field == Head(fields)
         IN With(IF field.kind = "Scalar" /\ FloatParses(field.texts[1])
                 THEN (field.name :> FloatOf(field.texts[1])) @@ params
                 ELSE params,
                 LAMBDA next : ScalarParams(Tail(fields), next))

\* for match in vector_pattern.finditer(content)
RECURSIVE VectorParams(_, _)
VectorParams(fields, params) ==
    IF Len(fields) = 0 THEN params
    ELSE LET field == Head(fields)
         IN With(IF field.kind = "Vector" /\ \A i \in 1..4 : FloatParses(field.texts[i])
                 THEN (field.name :> [i \in 1..4 |-> FloatOf(field.texts[i])]) @@ params
                 ELSE params,
                 LAMBDA next : VectorParams(Tail(fields), next))

\* for match in texture_pattern.finditer(content)
RECURSIVE TextureParamsOf(_, _)
TextureParamsOf(fields, params) ==
    IF Len(fields) = 0 THEN params
    ELSE LET field == Head(fields)
         IN With(IF field.kind = "Texture"
                 THEN (field.name :> field.texts[1]) @@ params
                 ELSE params,
                 LAMBDA next : TextureParamsOf(Tail(fields), next))

\* parse_props_file(filepath): [raised, result]; the conversion of the
\* OpacityMaskClipValue text is outside any try block
parse_props_file(file) ==
    IF ~file.readable THEN [raised |-> FALSE, result |-> PropsDefaults]
    ELSE LET fields  == file.fields
             blend   == FirstField(fields, "BlendMode")
             two     == FirstField(fields, "TwoSided")
             opacity == FirstField(fields, "OpacityMaskClipValue")
         IN IF opacity # 0 /\ ~FloatParses(fields[opacity].texts[1])
            THEN [raised |-> TRUE, result |-> PropsDefaults]
            ELSE [ raised |-> FALSE,
                   result |->
                     [ blend_mode |-> IF blend = 0 THEN 0 ELSE IntOf(fields[blend].texts[1]),
                       two_sided  |-> two # 0 /\ Lower(fields[two].texts[1]) = <<"t", "r", "u", "e">>,
                       opacity_clip |-> IF opacity = 0 THEN <<1, 2>>
                                        ELSE FloatOf(fields[opacity].texts[1]),
                       scalar_params  |-> ScalarParams(fields, EmptyDict),
                       vector_params  |-> VectorParams(fields, EmptyDict),
                       texture_params |-> TextureParamsOf(fields, EmptyDict) ] ]

-----------------------------------------------------------------------------
(* PropsSpec: parse_props_file on one file of at most MaxFields fields.    *)

MaxFields == 2

Field(kind, name, texts) == [kind |-> kind, name |-> name, texts |-> texts]

FieldCatalogue ==
    { Field("BlendMode", "", << <<"3">> >>),
      Field("BlendMode", "", << <<"1">> >>),
      Field("TwoSided", "", << <<"t", "r", "u", "e">> >>),
      Field("TwoSided", "", << <<"F", "a", "l", "s", "e">> >>),
      Field("OpacityMaskClipValue", "", << <<"0", ".", "2", "5">> >>),
      Field("OpacityMaskClipValue", "", << <<"1", ".", "2", ".", "3">> >>),
      Field("OpacityMaskClipValue", "", << <<".">> >>),
      Field("Scalar", "Roughness", << <<"0", ".", "4">> >>),
      Field("Scalar", "Roughness", << <<"-">> >>),
      Field("Scalar", "EmissivePower", << <<"-", "2", ".", "5">> >>),
      Field("Scalar", "EmissivePower", << <<"1", "-", "2">> >>),
      Field("Vector", "Tint", << <<"1">>, <<"0", ".", "5">>, <<".", "5">>, <<"1", ".">> >>),
      Field("Vector", "Tint", << <<"1">>, <<"0", ".", ".", "5">>, <<"0">>, <<"1">> >>),
      Field("Texture", "RoughnessMap", << <<"P", "_", "R">> >>) }

RECURSIVE FieldLists(_)
FieldLists(n) ==
    IF n = 0 THEN { <<>> }
    ELSE FieldLists(n - 1)
         \cup { Append(fields, field) : fields \in FieldLists(n - 1), field \in FieldCatalogue }

PropsInit ==
    /\ OrchIdle
    /\ \E readable \in BOOLEAN, fields \in FieldLists(MaxFields) :
         probe = [ stage |-> "file",
                   file  |-> [readable |-> readable, fields |-> fields],
                   res   |-> [raised |-> FALSE, result |-> PropsDefaults] ]

\* props_data = parse_props_file(found_props)
PropsParse ==
    /\ probe.stage = "file"
    /\ probe' = [probe EXCEPT !.stage = "parsed", !.res = parse_props_file(probe.file)]
    /\ UNCHANGED orch_vars

PropsNext == PropsParse

PropsSpec == PropsInit /\ [][PropsNext]_vars

\* the fields of the file whose numbers all parse
WellFormed(field) == \A i \in 1..Len(field.texts) : FloatParses(field.texts[i])

FieldsOf(kind) ==
    { i \in 1..Len(probe.file.fields) : probe.file.fields[i].kind = kind }

\* the parameter map holds a name exactly when a field of that kind and
\* name is well formed
HoldsWellFormed(params, kind) ==
    \A name \in {"Roughness", "EmissivePower", "Tint"} :
        name \in DOMAIN params <=>
          \E i \in FieldsOf(kind) :
             probe.file.fields[i].name = name /\ WellFormed(probe.file.fields[i])

\* C22: parse_props_file never raises; a file that cannot be read gives the
\* defaults (blend mode 0, not two-sided, clip 0.5, empty scalar, vector and
\* texture maps); a number that does not parse is skipped and the other
\* fields are still parsed.
C22_ParsePropsNeverRaises ==
    probe.stage = "parsed" =>
        /\ ~probe.res.raised
        /\ "texture_params" \in DOMAIN probe.res.result
        /\ ~probe.file.readable =>
             /\ probe.res.result.blend_mode = 0
             /\ ~probe.res.result.two_sided
             /\ RatEq(probe.res.result.opacity_clip, <<1, 2>>)
             /\ DOMAIN probe.res.result.scalar_params = {}
             /\ DOMAIN probe.res.result.vector_params = {}
             /\ DOMAIN probe.res.result.texture_params = {}
        /\ probe.file.readable =>
             /\ HoldsWellFormed(probe.res.result.scalar_params, "Scalar")
             /\ HoldsWellFormed(probe.res.result.vector_params, "Vector")
             /\ (FieldsOf("Texture") # {}) <=>
                  "RoughnessMap" \in DOMAIN probe.res.result.texture_params
             /\ (FieldsOf("BlendMode") # {}) <=> probe.res.result.blend_mode # 0


-----------------------------------------------------------------------------
(* build_audio_index                                                       *)
(*                                                                         *)
(* The audio tree is [exists, audio, tables]: whether a WwiseAudio         *)
(* directory is found, its *.wav and *.ogg files in the order glob yields  *)
(* them, each [base, ext, path], and the contents of its *.txt files, each *)
(* the sequence of its lines.  The index maps names to paths.              *)

\* str.isdigit()
IsDigit(s) == Len(s) > 0 /\ \A i \in 1..Len(s) : s[i] \in Digits

\* step 1: the loop over the files of one extension; acc is
\* [id_to_file, index]
RECURSIVE AudioFiles(_, _, _)
AudioFiles(audio, ext, acc) ==
    IF Len(audio) = 0 THEN acc
    ELSE LET audio_file == Head(audio)
         IN With(IF audio_file.ext # ext THEN acc
                 ELSE IF IsDigit(audio_file.base)
                 THEN [acc EXCEPT !.id_to_file = (audio_file.base :> audio_file.path) @@ @]
                 ELSE [acc EXCEPT !.index = (audio_file.base :> audio_file.path) @@ @],
                 LAMBDA next : AudioFiles(Tail(audio), ext, next))

\* the section flag never falls: a header of another section is read as a line
EndsSection_never(line) == FALSE

\* a section header that ends the In Memory Audio section
EndsSection(line) ==
    \E header \in { <<"E", "v", "e", "n", "t", "\t">>, <<"S", "w", "i", "t", "c", "h", " ", "G", "r", "o", "u", "p", "\t">>, <<"S", "w", "i", "t", "c", "h", "\t">>, <<"S", "t", "a", "t", "e", " ", "G", "r", "o", "u", "p", "\t">> } :
        StartsWith(line, header)

\* id_to_name[audio_id] = audio_name on a dict kept in insertion order, as a
\* sequence of <<id, name>>
PutName(id_to_name, audio_id, audio_name) ==
    IF \E k \in 1..Len(id_to_name) : id_to_name[k][1] = audio_id
    THEN [ k \in 1..Len(id_to_name) |->
             IF id_to_name[k][1] = audio_id THEN <<audio_id, audio_name>> ELSE id_to_name[k] ]
    ELSE Append(id_to_name, <<audio_id, audio_name>>)

\* step 2: for line in content.split('\n'); acc is [in_section, id_to_name]
RECURSIVE TableLines(_, _)
TableLines(lines, acc) ==
    IF Len(lines) = 0 THEN acc
    ELSE LET line  == Head(lines)
             parts == Split(Strip(line), "\t")
         IN With(IF StartsWith(line, <<"I", "n", " ", "M", "e", "m", "o", "r", "y", " ", "A", "u", "d", "i", "o">>)
                 THEN [acc EXCEPT !.in_section = TRUE]
                 ELSE IF EndsSection(line)
                 THEN [acc EXCEPT !.in_section = FALSE]
                 ELSE IF acc.in_section /\ Contains(line, <<"\t">>) /\ Len(parts) >= 2
                         /\ IsDigit(Strip(parts[1])) /\ Strip(parts[2]) # <<>>
                 THEN [acc EXCEPT !.id_to_name = PutName(@, Strip(parts[1]), Strip(parts[2]))]
                 ELSE acc,
                 LAMBDA next : TableLines(Tail(lines), next))

\* step 2: for txt_file in glob(...); a file without content is passed over
\* and each file starts outside the section
RECURSIVE Tables(_, _)
Tables(tables, id_to_name) ==
    IF Len(tables) = 0 THEN id_to_name
    ELSE With(TableLines(Head(tables), [in_section |-> FALSE, id_to_name |-> id_to_name]),
              LAMBDA acc : Tables(Tail(tables), acc.id_to_name))

\* step 3: for audio_id, audio_name in id_to_name.items()
RECURSIVE NameToFile(_, _, _)
NameToFile(id_to_name, id_to_file, index) ==
    IF Len(id_to_name) = 0 THEN index
    ELSE LET audio_id   == Head(id_to_name)[1]
             audio_name == Head(id_to_name)[2]
         IN With(IF audio_id \notin DOMAIN id_to_file THEN index
                 ELSE LET named == (audio_name :> id_to_file[audio_id]) @@ index
                      IN IF StartsWith(audio_name, <<"A", "_">>)
                         THEN (SubSeq(audio_name, 3, Len(audio_name)) :> id_to_file[audio_id])
                              @@ named
                         ELSE named,
                 LAMBDA next : NameToFile(Tail(id_to_name), id_to_file, next))

build_audio_index(tree) ==
    IF ~tree.exists THEN EmptyDict
    ELSE With(AudioFiles(tree.audio, "ogg",
                         AudioFiles(tree.audio, "wav",
                                    [id_to_file |-> EmptyDict, index |-> EmptyDict])),
              LAMBDA files :
                NameToFile(Tables(tree.tables, <<>>), files.id_to_file, files.index))

-----------------------------------------------------------------------------
(* AudioSpec: build_audio_index on one audio tree.                         *)

MaxLines == 3

AudioFile(base, ext) == [base |-> base, ext |-> ext, path |-> <<base, ext>>]

\* the audio files of the tree, in glob order
AudioFileLists ==
    { <<>>,
      << AudioFile(<<"1", "1">>, "wav"), AudioFile(<<"2", "2">>, "wav"), AudioFile(<<"3", "3">>, "wav") >>,
      << AudioFile(<<"1", "1">>, "wav"), AudioFile(<<"D", "o", "o", "r">>, "wav") >>,
      << AudioFile(<<"1", "1">>, "ogg"), AudioFile(<<"1", "1">>, "wav"), AudioFile(<<"T", "h", "e", "m", "e">>, "ogg") >>,
      << AudioFile(<<"2", "2">>, "wav"), AudioFile(<<"3", "3">>, "ogg"), AudioFile(<<"T", "h", "e", "m", "e">>, "wav") >> }

\* the lines of a translation table
TableLineCatalogue ==
    { <<"I", "n", " ", "M", "e", "m", "o", "r", "y", " ", "A", "u", "d", "i", "o", "\t", "I", "D", "\t", "N", "a", "m", "e", "\t", "O", "b", "j", "e", "c", "t", " ", "P", "a", "t", "h">>,
      <<"\t", "1", "1", "\t", "A", "_", "D", "o", "o", "r", "\t", "\\", "A", "c", "t", "o", "r", "-", "M", "i", "x", "e", "r", "\\", "D", "o", "o", "r">>,
      <<"\t", "2", "2", "\t", "D", "o", "o", "r">>,
      <<"\t", "1", "1", "\t", "C", "r", "e", "a", "k">>,
      <<"\t", "3", "3", "\t", "A", "_", "D", "o", "o", "r">>,
      <<"E", "v", "e", "n", "t", "\t", "I", "D", "\t", "N", "a", "m", "e">>,
      <<"S", "t", "a", "t", "e", " ", "G", "r", "o", "u", "p", "\t", "I", "D", "\t", "N", "a", "m", "e">>,
      <<"\t", "a", "b", "c", "\t", "N", "a", "m", "e">>,
      <<"\t", "2", "2", "\t">>,
      <<"3", "3", " ", "R", "a", "i", "n">> }

RECURSIVE TableContents(_)
TableContents(n) ==
    IF n = 0 THEN { <<>> }
    ELSE TableContents(n - 1)
         \cup { Append(lines, line) : lines \in TableContents(n - 1),
                                      line \in TableLineCatalogue }

\* a second table that has entries but no section header
StrayTable == << <<"\t", "2", "2", "\t", "S", "t", "r", "a", "y">> >>

AudioInit ==
    /\ OrchIdle
    /\ \E exists \in BOOLEAN, audio \in AudioFileLists, lines \in TableContents(MaxLines),
          second \in BOOLEAN :
         /\ ~exists => (audio = <<>> /\ ~second)
         /\ second => Len(lines) <= 2
         /\ probe = [ stage |-> "tree",
                      tree  |-> [ exists |-> exists, audio |-> audio,
                                  tables |-> IF second THEN <<lines, StrayTable>>
                                             ELSE <<lines>> ],
                      index |-> EmptyDict ]

\* self._audio_index = build_audio_index(base_dir)
AudioIndex ==
    /\ probe.stage = "tree"
    /\ probe' = [probe EXCEPT !.stage = "indexed audio",
                              !.index = build_audio_index(probe.tree)]
    /\ UNCHANGED orch_vars

AudioNext == AudioIndex

AudioSpec == AudioInit /\ [][AudioNext]_vars

AudioIndexed == probe.stage = "indexed audio" /\ probe.tree.exists

\* the lines of the tables, as <<table, line>> positions
TablePositions ==
    { pos \in (1..Len(probe.tree.tables)) \X (1..MaxLines) :
        pos[2] <= Len(probe.tree.tables[pos[1]]) }

LineAt(pos) == probe.tree.tables[pos[1]][pos[2]]

IsSectionEnd(line) ==
    \/ StartsWith(line, <<"E", "v", "e", "n", "t", "\t">>)
    \/ StartsWith(line, <<"S", "w", "i", "t", "c", "h", " ", "G", "r", "o", "u", "p", "\t">>)
    \/ StartsWith(line, <<"S", "w", "i", "t", "c", "h", "\t">>)
    \/ StartsWith(line, <<"S", "t", "a", "t", "e", " ", "G", "r", "o", "u", "p", "\t">>)

\* the line is inside an In Memory Audio section of its table
InMemorySection(pos) ==
    \E h \in 1..(pos[2] - 1) :
        /\ StartsWith(LineAt(<<pos[1], h>>), <<"I", "n", " ", "M", "e", "m", "o", "r", "y", " ", "A", "u", "d", "i", "o">>)
        /\ \A k \in (h + 1)..pos[2] : ~IsSectionEnd(LineAt(<<pos[1], k>>))

Columns(pos) == Split(Strip(LineAt(pos)), "\t")

\* the name entries: a numeric ID and a name, tab separated, inside a section
NameEntries ==
    { pos \in TablePositions :
        /\ InMemorySection(pos)
        /\ ~StartsWith(LineAt(pos), <<"I", "n", " ", "M", "e", "m", "o", "r", "y", " ", "A", "u", "d", "i", "o">>)
        /\ Len(Columns(pos)) >= 2
        /\ IsDigit(Strip(Columns(pos)[1]))
        /\ Strip(Columns(pos)[2]) # <<>> }

EntryId(pos) == Strip(Columns(pos)[1])

EntryName(pos) == Strip(Columns(pos)[2])

\* the audio files named by an ID or a base name
FilesNamed(base) ==
    { probe.tree.audio[i].path : i \in { k \in 1..Len(probe.tree.audio) :
                                           probe.tree.audio[k].base = base } }

\* the names an entry registers: its name, and its name without A_
KeysOf(pos) ==
    { EntryName(pos) }
    \cup (IF StartsWith(EntryName(pos), <<"A", "_">>)
          THEN { SubSeq(EntryName(pos), 3, Len(EntryName(pos))) } ELSE {})

\* the entries whose ID has an audio file
Composable == { pos \in NameEntries : FilesNamed(EntryId(pos)) # {} }

NonNumericBases ==
    { probe.tree.audio[i].base : i \in { k \in 1..Len(probe.tree.audio) :
                                           ~IsDigit(probe.tree.audio[k].base) } }

\* nothing but the composable entries and the non-numeric files is indexed
OnlyComposed ==
    DOMAIN probe.index = UNION { KeysOf(pos) : pos \in Composable } \cup NonNumericBases

\* C23 as stated: every composable entry has its name, and its name without
\* A_, mapped to the file of its ID; every non-numeric file is mapped by its
\* base name; nothing else is mapped.
C23_EveryEntryMapped ==
    AudioIndexed =>
        /\ OnlyComposed
        /\ \A pos \in Composable : \A key \in KeysOf(pos) :
             probe.index[key] \in FilesNamed(EntryId(pos))
        /\ \A base \in NonNumericBases : probe.index[base] \in FilesNamed(base)

PosBefore(p, q) == p[1] < q[1] \/ (p[1] = q[1] /\ p[2] < q[2])

\* the entry that gives an ID its name: the last entry of that ID
Naming(pos) ==
    \A q \in NameEntries : EntryId(q) = EntryId(pos) => ~PosBefore(pos, q)

\* the first entry of the ID of an entry
FirstOf(pos) ==
    CHOOSE q \in NameEntries :
        /\ EntryId(q) = EntryId(pos)
        /\ \A r \in NameEntries : EntryId(r) = EntryId(pos) => ~PosBefore(r, q)

\* the entries that write a key in step 3
Writers(key) == { pos \in Composable : Naming(pos) /\ key \in KeysOf(pos) }

\* the writer whose ID was met last for the first time
LastWriter(key) ==
    CHOOSE pos \in Writers(key) :
        \A q \in Writers(key) : ~PosBefore(FirstOf(pos), FirstOf(q))

\* the file an ID or base name stands for: its .ogg file when it has one
FileNamed(base) ==
    IF <<base, "ogg">> \in FilesNamed(base) THEN <<base, "ogg">> ELSE <<base, "wav">>

\* C23 with the order of writing: a key is mapped to the file of the entry
\* that wrote it last, an ID is named by its last entry, and a non-numeric
\* file keeps its key only when no entry writes it.
C23_LastWriterMapped ==
    AudioIndexed =>
        /\ DOMAIN probe.index = { key \in UNION { KeysOf(pos) : pos \in NameEntries } :
                                    Writers(key) # {} } \cup NonNumericBases
        /\ \A key \in DOMAIN probe.index :
             probe.index[key] = IF Writers(key) # {}
                                THEN FileNamed(EntryId(LastWriter(key)))
                                ELSE FileNamed(key)

\* C23 witness: an entry with an A_ name was composed with its file, after a
\* section that ended and with a non-numeric file beside it.
C23_Witness ==
    /\ AudioIndexed
    /\ \E pos \in Composable : StartsWith(EntryName(pos), <<"A", "_">>)
    /\ \E pos \in TablePositions : IsSectionEnd(LineAt(pos))
    /\ NonNumericBases # {}

-----------------------------------------------------------------------------
(* One file's import with animations: the reference chains and the order   *)
(* of the host calls.  The handlers append what they do, in program order, *)
(* to the trace of the file being imported.                                *)

Ev(op, arg, out) == [op |-> op, arg |-> arg, out |-> out]

\* os.path.basename(path).replace('.gltf', ''), for the files there are
MeshNameOf(path) ==
    CASE path = "/Game/Chair" -> <<"C", "h", "a", "i", "r">>
      [] path = "/Game/Hero" -> <<"H", "e", "r", "o">>
      [] OTHER -> <<>>

\* start = obj_name.find("AnimSequence'") + len("AnimSequence'");
\* end = obj_name.find("'", start); obj_name[start:end] if end > start
TrackAnimName(obj_name) ==
    LET tag    == <<"A", "n", "i", "m", "S", "e", "q", "u", "e", "n", "c", "e", "'">>
        k      == Len(tag)
        starts == { i \in 1..(Len(obj_name) - k + 1) : SubSeq(obj_name, i, i + k - 1) = tag }
    IN IF starts = {} THEN <<>>
       ELSE LET start  == (CHOOSE a \in starts : \A b \in starts : a <= b) + k
                closes == { j \in start..Len(obj_name) : obj_name[j] = "'" }
            IN IF closes = {} THEN <<>>
               ELSE SubSeq(obj_name, start, (CHOOSE a \in closes : \A b \in closes : a <= b) - 1)

\* _collect_anim_tracks, `for anim_seq in anim_seqs`
RECURSIVE AnimSeqsLoop(_, _, _, _)
AnimSeqsLoop(acc, outer, slot_name, anim_seqs) ==
    IF Len(anim_seqs) = 0 THEN acc
    ELSE LET anim_ref  == Get(Head(anim_seqs), "AnimSeq", EmptyDict)
             obj_path  == Get(anim_ref, "ObjectPath", <<>>)
             obj_name  == Get(anim_ref, "ObjectName", <<>>)
             anim_name == TrackAnimName(obj_name)
         IN AnimSeqsLoop(
                IF obj_path = <<>> \/ obj_path \in acc.seen_paths THEN acc
                ELSE [ animations |-> IF anim_name # <<>>
                                      THEN Append(acc.animations,
                                                  [ name |-> anim_name, path |-> obj_path,
                                                    group |-> outer, slot |-> slot_name ])
                                      ELSE acc.animations,
                       seen_paths |-> acc.seen_paths \cup {obj_path} ],
                outer, slot_name, Tail(anim_seqs))

\* _collect_anim_tracks, `for entity in json_entities`
RECURSIVE CollectLoop(_, _)
CollectLoop(acc, json_entities) ==
    IF Len(json_entities) = 0 THEN acc
    ELSE LET entity == Head(json_entities)
             props  == Get(entity, "Properties", EmptyDict)
         IN CollectLoop(
                IF Get(entity, "Type", "") # "InterpTrackAnimControl" THEN acc
                ELSE AnimSeqsLoop(acc, Get(entity, "Outer", ""), Get(props, "SlotName", ""),
                                  Get(props, "AnimSeqs", <<>>)),
                Tail(json_entities))

_collect_anim_tracks(json_entities) ==
    CollectLoop([animations |-> <<>>, seen_paths |-> {}], json_entities).animations

\* _import_sequence_animations, `for anim_info in self._pending_animations`:
\* found[k] tells whether a .psa file is found for the k-th animation left
RECURSIVE _import_sequence_animations(_, _, _, _)
_import_sequence_animations(pending, found, _group_to_mesh, _mesh_to_armature) ==
    IF Len(pending) = 0 THEN <<>>
    ELSE LET anim_info   == Head(pending)
             target_mesh == Get(_group_to_mesh, anim_info.group, <<>>)
             linked      == target_mesh # <<>> /\ target_mesh \in DOMAIN _mesh_to_armature
             here ==
                 IF ~Head(found) THEN <<>>
                 ELSE <<Ev("read _group_to_mesh", anim_info.group, "")>>
                      \o (IF target_mesh # <<>>
                          THEN <<Ev("read _mesh_to_armature", target_mesh, "")>>
                          ELSE <<>>)
                      \o <<IF linked
                           THEN Ev("_import_psa_animation", anim_info.name,
                                   _mesh_to_armature[target_mesh])
                           ELSE Ev("_import_psa_as_action", anim_info.name, "")>>
         IN here \o _import_sequence_animations(Tail(pending), Tail(found),
                                                _group_to_mesh, _mesh_to_armature)

\* MapImporter.finish with the sequence animations placed after the material
\* import
finish_late(op, found) ==
    <<Ev("event_timer_remove", "", ""),
      Ev("lisr_completed_files.add", op.json_path, ""),
      Ev("lis.mat_import", op.json_path, "")>>
    \o (IF op._import_animations /\ Len(op._pending_animations) > 0
        THEN _import_sequence_animations(op._pending_animations, found,
                                         op._group_to_mesh, op._mesh_to_armature)
        ELSE <<>>)
    \o <<Ev("_process_next_in_queue", "", "")>>

\* MapImporter.finish: what it does, in order
finish(op, found) ==
    <<Ev("event_timer_remove", "", "")>>
    \o (IF op._import_animations /\ Len(op._pending_animations) > 0
        THEN _import_sequence_animations(op._pending_animations, found,
                                         op._group_to_mesh, op._mesh_to_armature)
        ELSE <<>>)
    \o <<Ev("lisr_completed_files.add", op.json_path, ""),
         Ev("lis.mat_import", op.json_path, ""),
         Ev("_process_next_in_queue", "", "")>>

\* _import_skeletal_entity reaches `self._mesh_to_armature[mesh_name] = armature`:
\* a fresh import that left an object, with animations on, an armature found
\* by _find_armature (armature[path]) and a mesh name that is not empty
WritesArmature(entity, op, _mesh_cache, host, armature) ==
    LET rec  == SkeletalMesh(entity, op._scale_factor)
        path == rec.import_path
    IN /\ ~rec.raised /\ ~rec.invalid
       /\ path \notin _mesh_cache
       /\ host[path] = "ok"
       /\ op._import_animations
       /\ armature[path]
       /\ MeshNameOf(path) # <<>>

\* the import path of a mesh entity
PathOf(entity_type, entity, op) ==
    MeshRecord(entity, op._scale_factor, MeshKey(entity["Type"]), "", FALSE).import_path

FileBatchStart(op) ==
    [ _mesh_cache |-> op._mesh_cache, _objects_imported |-> op._objects_imported,
      _mesh_to_armature |-> op._mesh_to_armature, events |-> <<>>, raised |-> FALSE ]

\* one pass of the loop body of MapImporter.modal for position i (from 0),
\* with what it does to the reference table
FileBatchStep(op, host, armature, i, acc) ==
    LET entity_type == op._entities[i + 1][1]
        entity      == op._entities[i + 1][2]
        res   == ImportEntity(entity_type, entity, op, acc._mesh_cache, host)
        wrote == /\ entity_type = "skeletal"
                 /\ WritesArmature(entity, op, acc._mesh_cache, host, armature)
        mesh_name == MeshNameOf(PathOf(entity_type, entity, op))
        table == IF wrote
                 THEN (mesh_name :> Get(entity, "Outer", "Error")) @@ acc._mesh_to_armature
                 ELSE acc._mesh_to_armature
        mesh  == IF entity_type \in {"mesh", "skeletal"} /\ Len(res.calls) > 0
                 THEN IF res.calls[1].op = "objects.new"
                      THEN <<Ev("cached data", PathOf(entity_type, entity, op), "")>>
                      ELSE <<Ev("import_scene.gltf", res.calls[1].arg, host[res.calls[1].arg])>>
                 ELSE <<>>
        write == IF wrote
                 THEN <<Ev("write _mesh_to_armature", mesh_name, "")>>
                 ELSE <<>>
    IN [ _mesh_cache |-> res._mesh_cache,
         _objects_imported |-> acc._objects_imported + (IF res.ret = "obj" THEN 1 ELSE 0),
         _mesh_to_armature |-> table,
         events |-> acc.events \o mesh \o write \o <<Ev("entity", "", res.ret)>>,
         raised |-> res.ret = "raise" ]

RECURSIVE FileRunBatch(_, _, _, _, _, _)
FileRunBatch(op, host, armature, i, end_index, acc) ==
    IF i >= end_index \/ acc.raised THEN acc
    ELSE CHOOSE r \in { FileRunBatch(op, host, armature, i + 1, end_index, a) :
                          a \in {FileBatchStep(op, host, armature, i, acc)} } : TRUE

-----------------------------------------------------------------------------
(* FileSpec: up to MaxFiles matinee files are imported one after the       *)
(* other, each by its own MapImporter operator.  probe.earlier keeps the   *)
(* paths the operators of the files before cached.                         *)

MaxFiles == 2

Anim_Walk == [AnimSeq |-> [ObjectPath |-> <<"A", "n", "i", "m", "/", "A", "_", "W", "a", "l", "k", ".", "0">>, ObjectName |-> <<"A", "n", "i", "m", "S", "e", "q", "u", "e", "n", "c", "e", "'", "A", "_", "W", "a", "l", "k", "'">>]]

Anim_Idle == [AnimSeq |-> [ObjectPath |-> <<"A", "n", "i", "m", "/", "A", "_", "I", "d", "l", "e", ".", "0">>, ObjectName |-> <<"A", "n", "i", "m", "S", "e", "q", "u", "e", "n", "c", "e", "'", "A", "_", "I", "d", "l", "e", "'">>]]

\* a reference whose ObjectName does not name an AnimSequence
Anim_Montage == [AnimSeq |-> [ObjectPath |-> <<"A", "n", "i", "m", "/", "M", "_", "S", "i", "t", ".", "0">>, ObjectName |-> <<"A", "n", "i", "m", "M", "o", "n", "t", "a", "g", "e", "'", "M", "_", "S", "i", "t", "'">>]]

Anim_NoPath == [AnimSeq |-> [ObjectName |-> <<"A", "n", "i", "m", "S", "e", "q", "u", "e", "n", "c", "e", "'", "A", "_", "R", "u", "n", "'">>]]

InterpTrackAnimControl(outer, anim_seqs) ==
    [Type |-> "InterpTrackAnimControl", Name |-> "InterpTrackAnimControl_0", Outer |-> outer,
     Properties |-> [AnimSeqs |-> anim_seqs]]

TrackLists ==
    { <<>>,
      <<InterpTrackAnimControl("InterpGroup_2", <<Anim_Walk, Anim_Idle>>),
        InterpTrackAnimControl("InterpGroup_5", <<Anim_Walk, Anim_Montage, Anim_NoPath>>)>> }

\* a skeletal mesh of an actor: m is 4 (Chair), 5 (Hero) or 6 (a file that is
\* not on disk)
ActorMesh(actor, m) ==
    [Type |-> "SkeletalMeshComponent", Name |-> "SkeletalMeshComponent0", Outer |-> actor,
     Properties |-> [SkeletalMesh |->
                        [ObjectName |-> IF m = 4 THEN <<"S", "k", "e", "l", "e", "t", "a", "l", "M", "e", "s", "h", "'", "C", "h", "a", "i", "r", "'">>
                                        ELSE IF m = 5 THEN <<"S", "k", "e", "l", "e", "t", "a", "l", "M", "e", "s", "h", "'", "H", "e", "r", "o", "'">>
                                        ELSE <<"S", "k", "e", "l", "e", "t", "a", "l", "M", "e", "s", "h", "'", "L", "o", "s", "t", "'">>]
                        @@ MeshRef(m)]]

Hero_9 == ActorMesh(<<"S", "k", "e", "l", "e", "t", "a", "l", "M", "e", "s", "h", "A", "c", "t", "o", "r", "M", "A", "T", "_", "9">>, 5)

Chair_7 == ActorMesh(<<"S", "k", "e", "l", "e", "t", "a", "l", "M", "e", "s", "h", "A", "c", "t", "o", "r", "M", "A", "T", "_", "7">>, 4)

Lost_7 == ActorMesh(<<"S", "k", "e", "l", "e", "t", "a", "l", "M", "e", "s", "h", "A", "c", "t", "o", "r", "M", "A", "T", "_", "7">>, 6)

Prop_Chair == Entity("StaticMeshComponent", "Comp_0", 1, 4, 2, 0, 0)

MeshLists ==
    { <<>>,
      <<Hero_9, Hero_9, Chair_7>>,
      <<Lost_7, Hero_9, Prop_Chair, Chair_7, Hero_9, Prop_Chair, Hero_9>> }

MatineeFiles ==
    { <<MatineeActor(<<GroupActorInfo(1, 4), GroupActorInfo(2, 6)>>)>> \o meshes \o tracks :
        meshes \in MeshLists, tracks \in TrackLists }

\* MapImporter.invoke for the contents json_object of the file at position at
\* of the queue
FileOperator(json_object, _import_animations, at) ==
    LET entities == Classify(json_object, WmInit(TRUE))
    IN [ json_path            |-> at,
         _import_animations   |-> _import_animations,
         _pending_animations  |-> IF _import_animations
                                  THEN _collect_anim_tracks(json_object) ELSE <<>>,
         _mesh_to_armature    |-> EmptyDict,
         _group_to_mesh       |-> IF _import_animations
                                  THEN build_anim_actor_mapping(json_object) ELSE EmptyDict,
         _entities            |-> entities,
         _total               |-> Len(entities),
         _index               |-> 0,
         _mesh_cache          |-> {},
         _objects_imported    |-> 0,
         _scale_factor        |-> <<1, 1>> ]

FileIdle(queue, _import_animations) ==
    [ stage |-> "queued", queue |-> queue, at |-> 1,
      op |-> FileOperator(<<>>, _import_animations, 0), trace |-> <<>>,
      earlier |-> {} ]

FileInit ==
    /\ OrchIdle
    /\ \E queue \in UNION { [1..n -> MatineeFiles] : n \in 1..MaxFiles },
          _import_animations \in BOOLEAN :
         probe = FileIdle(queue, _import_animations)

\* MapImporter.invoke for the file the queue is at
FileInvoke ==
    /\ probe.stage = "queued"
    /\ LET op == FileOperator(probe.queue[probe.at], probe.op._import_animations, probe.at)
       IN IF op._total = 0
          THEN probe' = [probe EXCEPT
                            !.op = op,
                            !.trace = <<Ev("invoke", "", "CANCELLED"),
                                        Ev("_process_next_in_queue", "", "")>>,
                            !.at = probe.at + 1,
                            !.stage = IF probe.at < Len(probe.queue)
                                      THEN "queued" ELSE "complete"]
          ELSE probe' = [probe EXCEPT
                            !.op = op,
                            !.trace = <<Ev("invoke", "", "RUNNING_MODAL")>>,
                            !.stage = "modal"]
    /\ UNCHANGED orch_vars

\* what _find_armature answers during one batch, told apart only for the files
\* the batch can hand to the host importer with animations on
BatchArmatures(op, end_index) ==
    { armature \in [GltfOnDisk -> BOOLEAN] :
        \A path \in GltfOnDisk :
            (~op._import_animations \/ path \notin BatchPaths(op, end_index)) => armature[path] }

\* which of the pending animations have a .psa file, told apart only in the
\* batch that ends the file
PsaFound(op, end_index) ==
    { found \in [1..Len(op._pending_animations) -> BOOLEAN] :
        end_index < op._total => \A k \in DOMAIN found : found[k] }

\* a TIMER event reaches MapImporter.modal
FileModalTimer ==
    /\ probe.stage = "modal"
    /\ \E host \in BatchHosts(probe.op, EndIndex(probe.op)),
          armature \in BatchArmatures(probe.op, EndIndex(probe.op)),
          found \in PsaFound(probe.op, EndIndex(probe.op)) :
       \E acc \in {FileRunBatch(probe.op, host, armature, probe.op._index,
                                 EndIndex(probe.op), FileBatchStart(probe.op))} :
         LET op  == probe.op
             op1 == [op EXCEPT !._index = EndIndex(op),
                               !._mesh_cache = acc._mesh_cache,
                               !._objects_imported = acc._objects_imported,
                               !._mesh_to_armature = acc._mesh_to_armature]
         IN IF acc.raised
            THEN probe' = [probe EXCEPT !.stage = "raised",
                                        !.op = [op EXCEPT !._mesh_cache = acc._mesh_cache,
                                                          !._objects_imported = acc._objects_imported,
                                                          !._mesh_to_armature = acc._mesh_to_armature],
                                        !.trace = probe.trace \o acc.events]
            ELSE IF op1._index >= op1._total
            THEN probe' = [probe EXCEPT
                              !.op = op1,
                              !.trace = probe.trace \o acc.events \o finish(op1, found),
                              !.earlier = probe.earlier \cup op1._mesh_cache,
                              !.at = probe.at + 1,
                              !.stage = IF probe.at < Len(probe.queue)
                                        THEN "queued" ELSE "complete"]
            ELSE probe' = [probe EXCEPT !.op = op1,
                                        !.trace = probe.trace \o acc.events]
    /\ UNCHANGED orch_vars

\* an ESC event reaches MapImporter.modal
FileModalEsc ==
    /\ probe.stage = "modal"
    /\ probe' = [probe EXCEPT !.stage = "cancelled",
                              !.trace = Append(probe.trace, Ev("cancel", "", ""))]
    /\ UNCHANGED orch_vars

FileNext == FileInvoke \/ FileModalTimer \/ FileModalEsc

FileSpec == FileInit /\ [][FileNext]_vars

-----------------------------------------------------------------------------
(* C24                                                                     *)

\* the file of the queue the trace belongs to has been invoked
Invoked == probe.op.json_path >= 1

Trace == probe.trace

IsRead(e) == e.op \in {"read _group_to_mesh", "read _mesh_to_armature"}

IsWrite(e) == e.op = "write _mesh_to_armature"

\* the entities whose loop body was run before position p of the trace
EntitiesBefore(p) == Cardinality({ q \in 1..(p - 1) : Trace[q].op = "entity" })

\* position p lies in finish: after the timer is removed
InFinish(p) == \E q \in 1..(p - 1) : Trace[q].op = "event_timer_remove"

\* C24: within one file's import _group_to_mesh is what invoke built from the
\* file, _mesh_to_armature is written only while entities are processed, the
\* two tables are read only in finish, after the last entity of the file and
\* before the material import and the queue advance, and no write follows a
\* read.
C24_ChainsReadOnlyInFinish ==
    Invoked =>
        /\ probe.op._group_to_mesh =
               (IF probe.op._import_animations
                THEN build_anim_actor_mapping(probe.queue[probe.op.json_path])
                ELSE EmptyDict)
        /\ \A p \in 1..Len(Trace) :
               IsWrite(Trace[p]) =>
                   /\ ~InFinish(p)
                   /\ EntitiesBefore(p) < probe.op._total
                   /\ p < Len(Trace) /\ EntitiesBefore(p + 1) = EntitiesBefore(p)
        /\ \A p \in 1..Len(Trace) :
               IsRead(Trace[p]) =>
                   /\ InFinish(p)
                   /\ EntitiesBefore(p) = probe.op._total
                   /\ \A q \in 1..Len(Trace) :
                          Trace[q].op \in {"lis.mat_import", "_process_next_in_queue"} => p < q
                   /\ \A q \in 1..Len(Trace) : IsWrite(Trace[q]) => q < p

\* C24 witness: a file of more than one batch is finished, its table was
\* written in a batch and read in finish, and an animation was placed on the
\* armature found through the chain
C24_Witness ==
    /\ Invoked
    /\ probe.op._total > _batch_size
    /\ \E p, q, r \in 1..Len(Trace) :
           /\ p < q /\ q < r
           /\ IsWrite(Trace[p])
           /\ Trace[q].op = "read _mesh_to_armature"
           /\ Trace[r].op = "_import_psa_animation"
    /\ \E p \in 1..Len(Trace) : Trace[p].op = "lis.mat_import"

-----------------------------------------------------------------------------
(* C29                                                                     *)

IsImport(e, path) == e.op = "import_scene.gltf" /\ e.arg = path

IsInstance(e, path) == e.op = "cached data" /\ e.arg = path

\* C29: within one file's import, once the host importer has left an object
\* for a path it is not called for that path again; an entity placed from
\* cached data follows such an import of its path in the same file, whatever
\* the files before cached, and is placed.
C29_OneImporterCallPerPath ==
    Invoked =>
        \A path \in GltfOnDisk, p \in 1..Len(Trace) :
            /\ (IsImport(Trace[p], path) /\ Trace[p].out = "ok") =>
                   \A q \in (p + 1)..Len(Trace) : ~IsImport(Trace[q], path)
            /\ IsInstance(Trace[p], path) =>
                   /\ \E q \in 1..(p - 1) : IsImport(Trace[q], path) /\ Trace[q].out = "ok"
                   /\ \E q \in (p + 1)..Len(Trace) :
                          /\ Trace[q].op = "entity" /\ Trace[q].out = "obj"
                          /\ \A r \in (p + 1)..(q - 1) : Trace[r].op # "entity"

\* C29 witness: the second file imports a path the first file had cached, and
\* then places another entity of that path from the cached data
C29_Witness ==
    /\ probe.op.json_path = 2
    /\ "/Game/Hero" \in probe.earlier
    /\ \E p, q \in 1..Len(Trace) :
           /\ p < q
           /\ IsImport(Trace[p], "/Game/Hero") /\ Trace[p].out = "ok"
           /\ IsInstance(Trace[q], "/Game/Hero")

-----------------------------------------------------------------------------
(* C25                                                                     *)

\* the objects placed by the files a run finished
RECURSIVE ObjectsPlaced(_)
ObjectsPlaced(files) ==
    IF Len(files) = 0 THEN 0
    ELSE Head(files)._objects_imported + ObjectsPlaced(Tail(files))

\* the step that ends a bulk run: the queue is complete
RunCompletes ==
    /\ fileselect \/ wm.lisr_queue_total > 0
    /\ ~wm.lisr_import_complete
    /\ wm'.lisr_import_complete

\* the queue of the run that step ends: BulkMapImporter.execute, which fills
\* the queue, ends the run itself only when the queue is a single file
RunQueue == IF fileselect THEN <<last'.path>> ELSE wm.lisr_import_queue

\* C25: when a bulk run completes, lisr_completed_files holds one entry for
\* each file of the queue, in queue order, with the number of entities
\* classified for import, and lisr_total_objects is the number of objects
\* placed over all files of the run.
C25_CompletedFilesMatchQueue ==
    [][ RunCompletes =>
          /\ Len(wm'.lisr_completed_files) = Len(RunQueue)
          /\ \A k \in 1..Len(RunQueue) :
                 k <= Len(wm'.lisr_completed_files) =>
                     /\ wm'.lisr_completed_files[k].name = RunQueue[k]
                     /\ wm'.lisr_completed_files[k].entity_count
                        = Len(Classify(JsonContent(RunQueue[k]), wm))
          /\ wm'.lisr_total_objects = ObjectsPlaced(finished')
      ]_vars

-----------------------------------------------------------------------------
(* C27                                                                     *)

\* a <= b for fractions with positive denominators
RatLe(a, b) == a[1] * b[2] <= b[1] * a[2]

\* a bulk run has started its first file and has neither completed nor been
\* cancelled
RunUnderWay == wm.lisr_queue_total > 0 /\ wm.lisr_import_running

\* C27: during a bulk run lisr_import_progress lies in [0, 100] and does not
\* decrease from one state to the next.
C27_ProgressMonotone ==
    [][ RunUnderWay =>
          /\ RatLe(Rat(0), wm'.lisr_import_progress)
          /\ RatLe(wm'.lisr_import_progress, Rat(100))
          /\ RatLe(wm.lisr_import_progress, wm'.lisr_import_progress)
      ]_vars

-----------------------------------------------------------------------------
(* LiveSpec: bulk runs in which no ESC event arrives, every TIMER event    *)
(* the window manager owes a running operator is delivered, and every      *)
(* registered start_next callback is run.                                  *)

LiveNext ==
    \/ BulkInvoke
    \/ BulkExecute
    \/ StartNext
    \/ \E i \in 1..Len(ops) : ModalTimer(i)

\* event_timer_add(0.01, ...) keeps sending TIMER events to modal until the
\* timer is removed; bpy.app.timers runs a registered callback once its
\* interval has passed
LiveSpec ==
    /\ Init
    /\ [][LiveNext]_vars
    /\ WF_vars(StartNext)
    /\ WF_vars(\E i \in 1..Len(ops) : ModalTimer(i))

-----------------------------------------------------------------------------
(* C28                                                                     *)

\* BulkMapImporter.execute has queued the files of a run
RunQueued == wm.lisr_queue_total > 0

\* the end state of a run
RunEnded ==
    /\ ~wm.lisr_import_running
    /\ wm.lisr_import_complete
    /\ wm.lisr_import_queue = <<>>
    /\ wm.lisr_queue_index = 0
    /\ wm.lisr_queue_total = 0

\* the queue position stays inside the queue
QueueIndexInRange ==
    /\ 0 <= wm.lisr_queue_index
    /\ wm.lisr_queue_index <= wm.lisr_queue_total
    /\ wm.lisr_queue_total = Len(wm.lisr_import_queue)

\* C28: without cancel and with timer events arriving, a bulk run eventually
\* reaches its end state, whatever the queue holds, and the queue position
\* stays inside the queue in every state.
C28_RunTerminates == (RunQueued ~> RunEnded) /\ []QueueIndexInRange

-----------------------------------------------------------------------------
(* C26                                                                     *)

\* the indexed names whose path was returned
MatchedNames ==
    { probe._audio_index[i].name : i \in { j \in 1..Len(probe._audio_index) :
                                             probe._audio_index[j].path = probe.audio_path } }

\* the retained keywords, by position, that occur in the name
KeywordsIn(keywords, name) ==
    { i \in 1..Len(keywords) : Contains(Lower(name), keywords[i]) }

\* C26: when _fuzzy_match_audio returns a path, at least half of the retained
\* keywords of the candidate occur as substrings in the matched name.
C26_HalfOfKeywordsMatched ==
    (probe.stage = "matched" /\ probe.audio_path # None) =>
        \A name \in MatchedNames :
            2 * Cardinality(KeywordsIn(Keywords(probe.audio_id), name))
                >= Len(Keywords(probe.audio_id))

-----------------------------------------------------------------------------
(* The animation importers and the host state they touch: the selected     *)
(* objects, the active object ("None" when there is none), the armature's  *)
(* animation_data and its action ("None" when unassigned), and the names   *)
(* in bpy.data.actions.                                                    *)

\* what bpy.ops.psa.import_all can do: finish with a new action assigned to
\* the active armature, return without importing, raise RuntimeError, or not
\* exist (AttributeError)
PsaOutcomes == {"FINISHED", "CANCELLED", "RuntimeError", "AttributeError"}

\* the name the add-on gives the action it creates
ImportedAction == "Seq_psa"

\* bpy.ops.object.select_all(action='DESELECT'); armature.select_set(True);
\* bpy.context.view_layer.objects.active = armature
SelectOnly(host, armature) == [host EXCEPT !.selected = {armature}, !.active = armature]

\* bpy.ops.psa.import_all when it returns
PsaImportAll(host, outcome) ==
    IF outcome = "FINISHED"
    THEN [host EXCEPT !.actions = host.actions \cup {ImportedAction},
                      !.animation_data = TRUE,
                      !.action = ImportedAction]
    ELSE host

\* action.name = anim_name
RenameAction(host, action, anim_name) ==
    [host EXCEPT !.actions = (host.actions \ {action}) \cup {anim_name},
                 !.action = IF host.action = action THEN anim_name ELSE host.action]

Returned(ret, path, host) == [ret |-> ret, path |-> path, host |-> host]

\* the try block shared by the two importers; changed_only tells whether the
\* armature's action is taken only when it differs from the old one
PsaTry(host, armature, anim_name, outcome, changed_only) ==
    LET old_active   == host.active
        old_selected == host.selected
        old_action   == IF host.animation_data THEN host.action ELSE "None"
        h1 == SelectOnly(host, armature)
    IN IF outcome \in {"RuntimeError", "AttributeError"}
       THEN Returned("None", outcome, h1)
       ELSE LET h2 == PsaImportAll(h1, outcome)
                new_actions == h2.actions \ h1.actions
                action ==
                    IF new_actions # {} THEN CHOOSE a \in new_actions : TRUE
                    ELSE IF h2.animation_data /\ h2.action # "None"
                            /\ (~changed_only \/ h2.action # old_action)
                    THEN h2.action
                    ELSE "None"
                h3 == IF h2.animation_data THEN [h2 EXCEPT !.action = old_action] ELSE h2
                h4 == IF action # "None" /\ action # anim_name
                      THEN RenameAction(h3, action, anim_name) ELSE h3
                h5 == [h4 EXCEPT !.selected = old_selected,
                                 !.active = IF old_active # "None" THEN old_active
                                            ELSE h4.active]
            IN Returned(IF action = "None" THEN "None" ELSE anim_name,
                        IF action = "None" THEN "no action" ELSE "imported", h5)

\* MapImporter._import_psa_animation(armature, anim_path, anim_name); exists is
\* what os.path.exists(anim_path) answers
_import_psa_animation(host, armature, exists, anim_name, outcome) ==
    IF ~exists THEN Returned("None", "file missing", host)
    ELSE IF anim_name \in host.actions THEN Returned(anim_name, "action exists", host)
    ELSE PsaTry(host, armature, anim_name, outcome, TRUE)

\* MapImporter._import_psa_as_action(psa_path, anim_name); armatures are the
\* armature objects of bpy.data.objects
_import_psa_as_action(host, armatures, exists, anim_name, outcome) ==
    IF ~exists THEN Returned("None", "file missing", host)
    ELSE IF anim_name \in host.actions THEN Returned(anim_name, "action exists", host)
    ELSE IF armatures = {} THEN Returned("None", "no armature", host)
    ELSE PsaTry(host, CHOOSE a \in armatures : TRUE, anim_name, outcome, FALSE)

-----------------------------------------------------------------------------
(* PsaSpec: one call of an animation importer from a host state drawn from *)
(* the values below.                                                       *)

SceneObjects == {"Armature", "Cube"}

HostStates ==
    { [ selected |-> selected, active |-> active, animation_data |-> data,
        action |-> action, actions |-> actions ] :
        selected \in SUBSET SceneObjects,
        active \in SceneObjects \cup {"None"},
        data \in BOOLEAN,
        action \in {"None", "Old"},
        actions \in {{}, {"Old"}, {"Old", "A_Walk"}} }

PsaInit ==
    /\ OrchIdle
    /\ \E host \in HostStates, exists \in BOOLEAN :
         /\ host.action # "None" => (host.animation_data /\ host.action \in host.actions)
         /\ probe = [ stage |-> "host", host |-> host, exists |-> exists,
                      fn |-> "", returned |-> Returned("None", "", host) ]

\* _import_sequence_animations: self._import_psa_animation(target_armature, psa_path, anim_name)
PsaAnimation ==
    /\ probe.stage = "host"
    /\ \E outcome \in PsaOutcomes :
         probe' = [probe EXCEPT
                      !.stage = "returned", !.fn = "_import_psa_animation",
                      !.returned = _import_psa_animation(probe.host, "Armature", probe.exists,
                                                         "A_Walk", outcome)]
    /\ UNCHANGED orch_vars

\* _import_sequence_animations: self._import_psa_as_action(psa_path, anim_name)
PsaAsAction ==
    /\ probe.stage = "host"
    /\ \E outcome \in PsaOutcomes, armatures \in {{}, {"Armature"}} :
         probe' = [probe EXCEPT
                      !.stage = "returned", !.fn = "_import_psa_as_action",
                      !.returned = _import_psa_as_action(probe.host, armatures, probe.exists,
                                                        "A_Walk", outcome)]
    /\ UNCHANGED orch_vars

PsaNext == PsaAnimation \/ PsaAsAction

PsaSpec == PsaInit /\ [][PsaNext]_vars

-----------------------------------------------------------------------------
(* C30                                                                     *)

\* the armature's assigned action
AssignedAction(host) == IF host.animation_data THEN host.action ELSE "None"

\* C30: whichever way _import_psa_animation returns, the selected objects, the
\* active object and the armature's assigned action are as before the call.
C30_PsaImportKeepsSelection ==
    (probe.stage = "returned" /\ probe.fn = "_import_psa_animation") =>
        /\ probe.returned.host.selected = probe.host.selected
        /\ probe.returned.host.active = probe.host.active
        /\ AssignedAction(probe.returned.host) = AssignedAction(probe.host)

====
